---- MODULE Spec2Model ----
(***************************************************************************)
(* Call signaling and peer-connection orchestration of the VideoCall       *)
(* component (src/unnamed/part_000).  Every client runs the same           *)
(* component; the signaling server of the repository is modelled from the  *)
(* specification (join snapshot, user_joined / user_left broadcast,        *)
(* relay by `to`).  Async handlers are split at their awaits: the code up  *)
(* to the first await runs in the action that starts the handler, every    *)
(* continuation is an action of its own over a task record.                *)
(***************************************************************************)
EXTENDS Integers, Sequences, FiniteSets, Bags, TLC

Clients == {"a", "b"}
Kinds == {"audio", "video"}

\* Bounds of the environment (not program constants).
MaxRedeliver == 1
MaxTransportFail == 1
MaxMediaOps == 1
MaxRevoke == 1
MaxChannelFail == 2
MaxCandidates == 1
MaxDeviceCalls == 2

NoPc == 0
NoPeer == "-"

VARIABLES
    phase,            \* call session of a client: "idle", "joined", "left"
    wsRef,            \* readyState of wsRef.current, or "null"
    members,          \* server: participants of the room, in join order
    inbox,            \* signaling messages on their way to a client's onmessage
    participants,     \* participants state (a list)
    peersRef,         \* peersRef.current: peer id -> connection object (NoPc: no entry)
    pcs,              \* heap of RTCPeerConnection objects, by creation order
    remoteStreams,    \* keys of the remoteStreams map
    tasks,            \* suspended async continuations (a bag)
    localStreamRef,   \* localStreamRef.current: [present, tracks]
    stopped,          \* tracks whose readyState is "ended"
    trackOff,         \* tracks whose enabled flag is false
    trackCount,       \* tracks handed out by getUserMedia so far, per client
    audioEnabled, videoEnabled,
    micPermissionDenied, cameraPermissionDenied,
    micDeviceAvailable, isRequestingPermissions,
    offersSent,       \* history: offers passed to ws.send, by cause and pair
    mediaHist,        \* history per client: mediaHist, changes of "a live audio track
                      \* exists" while linked; opsConnected, media operations
                      \* started while every link was connected
    redelivered, transportFails, mediaOps, revokes,  \* environment budgets used
    initPc,           \* where initializeCall stands: "lookup", "media", "connect",
                      \* "done", "aborted" (404 / 403), "failed" (other lookup error)
    lookupResult,     \* response of the room lookup: "pending", "ok", "404", "403", "error"
    isConnected,      \* isConnected state
    sockets,          \* the WebSocket objects a client created, by creation order
    wsSock,           \* which socket wsRef.current is (0: null)
    timers,           \* pending 3-second timers in firing order: "reconnect", "retry"
    toasts,           \* error toasts shown
    onCloseCalled,    \* onClose() was invoked
    failedAttempts,   \* history: consecutive failed reconnection attempts
    channelFails,     \* environment budget used: channel failures
    deviceCheck,      \* the checkDeviceAvailability of the mount effect: "pending", "done"
    deviceCalls       \* environment budget used: enableMicrophone calls made step by step

vars == <<phase, wsRef, members, inbox, participants, peersRef, pcs, remoteStreams,
          tasks, localStreamRef, stopped, trackOff, trackCount, audioEnabled, videoEnabled,
          micPermissionDenied, cameraPermissionDenied, micDeviceAvailable,
          isRequestingPermissions, offersSent, mediaHist,
          redelivered, transportFails, mediaOps, revokes,
          initPc, lookupResult, isConnected, sockets, wsSock, timers, toasts,
          onCloseCalled, failedAttempts, channelFails, deviceCheck, deviceCalls>>

sigVars == <<phase, wsRef, members, inbox, participants, peersRef, pcs,
             remoteStreams, tasks, offersSent>>
mediaVars == <<localStreamRef, stopped, trackOff, trackCount, audioEnabled, videoEnabled,
               micPermissionDenied, cameraPermissionDenied, micDeviceAvailable,
               isRequestingPermissions>>
budgetVars == <<redelivered, transportFails, mediaOps, revokes>>
chanVars == <<initPc, lookupResult, isConnected, sockets, wsSock, timers, toasts,
              onCloseCalled, failedAttempts, channelFails>>
deviceVars == <<deviceCheck, deviceCalls>>

----------------------------------------------------------------------------
\* Data

Pairs == {pr \in Clients \X Clients : pr[1] # pr[2]}
OfferCauses == {"room_info", "user_joined", "reneg"}

\* a session description; chan: the socket of its author when it was created
\* (the messages of the code carry no such field)
NoDesc == [type |-> "none", from |-> NoPeer, tracks |-> {}, re |-> {}, chan |-> 0]
NoTrack == [owner |-> NoPeer, kind |-> "none", n |-> 0]

Track(c, k, n) == [owner |-> c, kind |-> k, n |-> n]

OfKind(ts, k) == {t \in ts : t.kind = k}

\* tracks of the local stream (getTracks() of a null stream: none)
LocalTracks(c) == IF localStreamRef[c].present THEN localStreamRef[c].tracks ELSE {}

LiveLocalTracks(c) == LocalTracks(c) \ stopped

PcIds == 1..Len(pcs)

IsOpen(i) == pcs[i].sig # "closed"

\* new RTCPeerConnection(rtcConfiguration), with the local tracks added; ice:
\* the candidates the connection has handed to onicecandidate; added: the
\* remote candidates addIceCandidate has accepted
NewPc(c, p, ts) ==
    [owner |-> c, peer |-> p, sig |-> "stable", local |-> NoDesc, remote |-> NoDesc,
     senders |-> ts, conn |-> "new", ice |-> 0, added |-> 0]

\* RTCPeerConnection.close()
ClosedPc(pc) ==
    [pc EXCEPT !.sig = "closed", !.local = NoDesc, !.remote = NoDesc,
               !.senders = {}, !.conn = "closed", !.added = 0]

Msg(type, from, to, body) == [type |-> type, from |-> from, to |-> to, body |-> body]

Task(c, kind, p, i, step, desc, rest) ==
    [owner |-> c, kind |-> kind, peer |-> p, pc |-> i, step |-> step, desc |-> desc,
     rest |-> rest, old |-> NoTrack, new |-> NoTrack, guarded |-> FALSE]

AddTask(ts, t) == ts (+) SetToBag({t})
DelTask(ts, t) == ts (-) SetToBag({t})
Pending == BagToSet(tasks)


----------------------------------------------------------------------------
\* Signaling server (RoomRegistry and SignalingRelay)

Range(q) == {q[k] : k \in 1..Len(q)}

\* join: snapshot of the existing participants to the joiner, user_joined to the others
ServerJoin(ib, c) ==
    [x \in Clients |->
        IF x = c THEN Append(ib[x], Msg("room_info", NoPeer, c, members))
        ELSE IF x \in Range(members) THEN Append(ib[x], Msg("user_joined", NoPeer, x, c))
        ELSE ib[x]]

\* leave: user_left to the remaining members; nothing is delivered to a closed
\* channel any more
ServerLeave(ib, c) ==
    [x \in Clients |->
        IF x = c THEN <<>>
        ELSE IF x \in Range(members) THEN Append(ib[x], Msg("user_left", NoPeer, x, c))
        ELSE ib[x]]

\* toggle_audio / toggle_video: the new state is announced to the other members
ServerToggle(ib, c, k, on) ==
    [x \in Clients |->
        IF x # c /\ x \in Range(members) /\ c \in Range(members)
        THEN Append(ib[x], Msg(IF k = "audio" THEN "user_audio_toggled"
                               ELSE "user_video_toggled", c, x, on))
        ELSE ib[x]]

\* relay: deliver to exactly the `to` participant if connected, else drop
Relay(ib, from, to, type, body) ==
    IF to \in Range(members) /\ from \in Range(members)
    THEN [ib EXCEPT ![to] = Append(@, Msg(type, from, to, body))]
    ELSE ib

----------------------------------------------------------------------------
\* Client helpers

HasPeer(c, p) == peersRef[c][p] # NoPc

\* wsRef.current?.send(...) and the readyState === OPEN variant agree on the
\* two channel states modelled here
WsSend(ib, c, to, type, body) ==
    IF wsRef[c] = "open" THEN Relay(ib, c, to, type, body) ELSE ib

CountOffer(os, cause, c, p) ==
    IF wsRef[c] = "open" THEN [os EXCEPT ![<<cause, c, p>>] = @ + 1] ELSE os

Offer(c, i) ==
    [type |-> "offer", from |-> c, tracks |-> pcs[i].senders, re |-> {},
     chan |-> wsSock[c]]

Answer(c, i) ==
    [type |-> "answer", from |-> c, tracks |-> pcs[i].senders, re |-> pcs[i].remote.tracks,
     chan |-> wsSock[c]]

\* variant of SkipLinked: createPeerConnection without its
\* peersRef.current.has(peerId) return
RECURSIVE SkipLinked_NoHasCheck(_, _)
SkipLinked_NoHasCheck(c, list) ==
    IF list = <<>> THEN <<>>
    ELSE IF Head(list) = c THEN SkipLinked_NoHasCheck(c, Tail(list))
    ELSE list

\* variant of SkipLinked: the entry of the local user is not skipped
RECURSIVE SkipLinked_NoSelfCheck(_, _)
SkipLinked_NoSelfCheck(c, list) ==
    IF list = <<>> THEN <<>>
    ELSE IF HasPeer(c, Head(list)) THEN SkipLinked_NoSelfCheck(c, Tail(list))
    ELSE list

\* the participants of a discovery list for which createPeerConnection does
\* nothing (self, or already in the map) are passed without suspending
RECURSIVE SkipLinked(_, _)
SkipLinked(c, list) ==
    IF list = <<>> THEN <<>>
    ELSE IF Head(list) = c \/ HasPeer(c, Head(list)) THEN SkipLinked(c, Tail(list))
    ELSE list

\* createPeerConnection(p, true) for the first participant of `list` that needs
\* one, on top of the heap pcsNow; the caller is suspended at createOffer
StartInitiator(c, kind, list, pcsNow, tasksNow) ==
    LET todo == SkipLinked(c, list) IN
    IF todo = <<>>
    THEN /\ pcs' = pcsNow
         /\ peersRef' = peersRef
         /\ tasks' = tasksNow
    ELSE /\ pcs' = Append(pcsNow, NewPc(c, Head(todo), LocalTracks(c)))
         /\ peersRef' = [peersRef EXCEPT ![c][Head(todo)] = Len(pcsNow) + 1]
         /\ tasks' = AddTask(tasksNow,
              Task(c, kind, Head(todo), Len(pcsNow) + 1, "createOffer", NoDesc, Tail(todo)))

\* variant of CloseEntry: closePeerConnection that drops the map entry without close()
CloseEntry_NoClose(ps, c, p) == ps

\* closePeerConnection: if (peerConnection) peerConnection.close()
CloseEntry(ps, c, p) ==
    IF HasPeer(c, p) THEN [ps EXCEPT ![peersRef[c][p]] = ClosedPc(@)] ELSE ps

\* closePeerConnection(peerId)
ClosePeerConnection(c, p) ==
    /\ pcs' = CloseEntry(pcs, c, p)
    /\ peersRef' = [peersRef EXCEPT ![c][p] = NoPc]
    /\ remoteStreams' = [remoteStreams EXCEPT ![c] = @ \ {p}]

RemoveAll(list, p) == SelectSeq(list, LAMBDA x : x # p)

----------------------------------------------------------------------------
\* initializeCall / cleanup

\* variant of StartLocalStream: a failed audio request ends the function, the
\* video request is not made
StartLocalStream_AudioBlocksVideo(c, aok, vok) ==
    LET n == trackCount[c]
        got == IF aok THEN {Track(c, "audio", n + 1)} \cup
                           (IF vok THEN {Track(c, "video", n + 1)} ELSE {})
               ELSE {}
    IN  /\ trackCount' = [trackCount EXCEPT ![c] = IF aok THEN n + 1 ELSE n]
        /\ localStreamRef' = [localStreamRef EXCEPT ![c] =
                                 IF aok THEN [present |-> TRUE, tracks |-> got]
                                 ELSE [present |-> FALSE, tracks |-> {}]]
        /\ micPermissionDenied' = [micPermissionDenied EXCEPT ![c] = ~aok]
        /\ cameraPermissionDenied' = [cameraPermissionDenied EXCEPT ![c] = aok /\ ~vok]
        /\ audioEnabled' = [audioEnabled EXCEPT ![c] = IF aok THEN @ ELSE FALSE]
        /\ videoEnabled' = [videoEnabled EXCEPT ![c] = IF aok /\ vok THEN @ ELSE FALSE]
        /\ isRequestingPermissions' = [isRequestingPermissions EXCEPT ![c] = FALSE]

\* startLocalStream: audio then video, each may fail on its own
StartLocalStream(c, aok, vok) ==
    LET n == trackCount[c]
        at == IF aok THEN {Track(c, "audio", n + 1)} ELSE {}
        vt == IF vok THEN {Track(c, "video", n + 1)} ELSE {}
    IN  /\ trackCount' = [trackCount EXCEPT ![c] = IF aok \/ vok THEN n + 1 ELSE n]
        /\ localStreamRef' = [localStreamRef EXCEPT ![c] =
                                 IF aok \/ vok
                                 THEN [present |-> TRUE, tracks |-> at \cup vt]
                                 ELSE [present |-> FALSE, tracks |-> {}]]
        /\ micPermissionDenied' = [micPermissionDenied EXCEPT ![c] = ~aok]
        /\ cameraPermissionDenied' = [cameraPermissionDenied EXCEPT ![c] = ~vok]
        /\ audioEnabled' = [audioEnabled EXCEPT ![c] = IF aok THEN @ ELSE FALSE]
        /\ videoEnabled' = [videoEnabled EXCEPT ![c] = IF vok THEN @ ELSE FALSE]
        /\ isRequestingPermissions' = [isRequestingPermissions EXCEPT ![c] = FALSE]

\* Signaling channel: WebSocket objects, their promises and the 3-second timers

\* readyState of wsRef.current
RefState(socks, k) == IF k = 0 THEN "null" ELSE socks[k].state

\* new WebSocket(fullWsUrl) inside connectWebSocket; `awaited` says who holds the
\* promise: "init" (await in initializeCall), "retry" (.catch in the retry
\* timer), "none" (the reconnect timer drops it); `timeout` is the pending
\* 10-second timer; `why` records how the socket came to close
NewSocket(awaited) ==
    [state |-> "connecting", awaited |-> awaited, settled |-> FALSE,
     timeout |-> TRUE, why |-> "none"]

Live(sk) == sk.state \in {"connecting", "open"}

\* clearTimeout(reconnectTimeoutRef.current)
ClearReconnect(ts) == SelectSeq(ts, LAMBDA x : x # "reconnect")

\* variant of ScheduleReconnect: the pending reconnect timer is not cleared
ScheduleReconnect_NoClear(ts) == Append(ts, "reconnect")

\* scheduleReconnect: the pending timer is cleared, a new one set
ScheduleReconnect(ts) == Append(ClearReconnect(ts), "reconnect")

\* reject(...) of a connectWebSocket promise: only the first connectWebSocket of
\* initializeCall is awaited; its catch shows a toast and sets the retry timer
RejectTimers(sk, ts) ==
    IF ~sk.settled /\ sk.awaited = "init" THEN Append(ts, "retry") ELSE ts

RejectToasts(sk, tt) ==
    IF sk.settled THEN tt
    ELSE IF sk.awaited = "init" THEN tt \cup {"Failed to connect to call server"}
    ELSE IF sk.awaited = "retry" THEN tt \cup {"Unable to connect"}
    ELSE tt

RejectPc(sk, pc) == IF ~sk.settled /\ sk.awaited = "init" THEN "done" ELSE pc

\* variant of OnClose: the close code is not looked at
OnClose_AnyCode(ts, code, cur) == IF cur # 0 THEN ScheduleReconnect(ts) ELSE ts

\* ws.onclose: scheduleReconnect if (event.code !== 1000 && wsRef.current);
\* cur is the socket wsRef.current is (0: null)
OnClose(ts, code, cur) == IF code # 1000 /\ cur # 0 THEN ScheduleReconnect(ts) ELSE ts

\* the task that fires the events of a socket that reached CLOSED: error first
\* when the connection failed (onerror: reject, scheduleReconnect; the rejection
\* is handled before the next event), then close (onclose: scheduleReconnect
\* when the code is not 1000 and wsRef.current is set).  The codes seen here are
\* 1006 (failure) and 1005 (close() without a code).
CloseEventTimers(sk, ts, cur, failed) ==
    LET afterError == IF failed THEN RejectTimers(sk, ScheduleReconnect(ts)) ELSE ts
    IN  OnClose(afterError, IF failed THEN 1006 ELSE 1005, cur)

\* the value of isConnected the retry timer of initializeCall reads: the one of
\* the render that created initializeCall
StaleIsConnected == FALSE

\* connectWebSocket up to the return of its promise
ConnectWebSocket(c, awaited) ==
    /\ sockets' = [sockets EXCEPT ![c] = Append(@, NewSocket(awaited))]
    /\ wsSock' = [wsSock EXCEPT ![c] = Len(sockets[c]) + 1]
    /\ wsRef' = [wsRef EXCEPT ![c] = "connecting"]

\* cleanup: wsRef.current.close() and wsRef.current = null, every connection
\* closed and the map cleared, the local tracks stopped, the reconnect timer
\* cleared
Cleanup(c) ==
    LET k == wsSock[c]
        wasOpen == k # 0 /\ sockets[c][k].state = "open"
    IN  /\ phase' = [phase EXCEPT ![c] = "left"]
        /\ sockets' = [sockets EXCEPT ![c] =
                          IF k # 0 /\ Live(@[k])
                          THEN [@ EXCEPT ![k].state = "closing",
                                         ![k].why = IF wasOpen THEN "client" ELSE "abort"]
                          ELSE @]
        /\ wsSock' = [wsSock EXCEPT ![c] = 0]
        /\ wsRef' = [wsRef EXCEPT ![c] = "null"]
        /\ timers' = [timers EXCEPT ![c] = ClearReconnect(@)]
        /\ pcs' = [i \in PcIds |->
                     IF peersRef[c][pcs[i].peer] = i /\ pcs[i].owner = c
                     THEN ClosedPc(pcs[i]) ELSE pcs[i]]
        /\ peersRef' = [peersRef EXCEPT ![c] = [p \in Clients |-> NoPc]]
        /\ stopped' = stopped \cup LocalTracks(c)
        /\ trackOff' = trackOff
        /\ localStreamRef' = [localStreamRef EXCEPT ![c] = [present |-> FALSE, tracks |-> {}]]
        /\ members' = IF wasOpen THEN RemoveAll(members, c) ELSE members
        /\ inbox' = IF wasOpen THEN ServerLeave(inbox, c) ELSE inbox
        /\ UNCHANGED <<participants, remoteStreams, tasks, trackCount, audioEnabled,
                       videoEnabled, micPermissionDenied, cameraPermissionDenied,
                       micDeviceAvailable, isRequestingPermissions, offersSent, mediaHist>>
        /\ UNCHANGED <<initPc, lookupResult, isConnected, toasts, failedAttempts,
                       channelFails>>
        /\ UNCHANGED budgetVars
        /\ UNCHANGED deviceVars

\* initializeCall run through without a failure: room lookup, startLocalStream,
\* connectWebSocket; the server admits the client when the channel opens
InitializeCall(c, aok, vok) ==
    /\ phase[c] = "idle" /\ initPc[c] = "lookup"
    /\ phase' = [phase EXCEPT ![c] = "joined"]
    /\ initPc' = [initPc EXCEPT ![c] = "done"]
    /\ lookupResult' = [lookupResult EXCEPT ![c] = "ok"]
    /\ StartLocalStream(c, aok, vok)
    /\ sockets' = [sockets EXCEPT ![c] =
                      Append(@, [NewSocket("init") EXCEPT !.state = "open",
                                     !.settled = TRUE, !.timeout = FALSE])]
    /\ wsSock' = [wsSock EXCEPT ![c] = Len(sockets[c]) + 1]
    /\ wsRef' = [wsRef EXCEPT ![c] = "open"]
    /\ isConnected' = [isConnected EXCEPT ![c] = TRUE]
    /\ inbox' = ServerJoin(inbox, c)
    /\ members' = Append(members, c)
    /\ UNCHANGED <<participants, peersRef, pcs, remoteStreams, tasks, stopped, trackOff,
                   micDeviceAvailable, offersSent, mediaHist>>
    /\ UNCHANGED <<timers, toasts, onCloseCalled, failedAttempts, channelFails>>
    /\ UNCHANGED budgetVars
    /\ UNCHANGED deviceVars

\* leaveCall: cleanup(); onClose()
LeaveCall(c) ==
    /\ phase[c] = "joined"
    /\ Cleanup(c)
    /\ onCloseCalled' = [onCloseCalled EXCEPT ![c] = TRUE]

\* the effect returned by useEffect: cleanup() when the component is unmounted
Unmount(c) ==
    /\ phase[c] = "idle"
    /\ Cleanup(c)
    /\ UNCHANGED onCloseCalled

----------------------------------------------------------------------------
\* Messages the channel may hand to onmessage beyond the relay by `to`: the
\* client parses and dispatches whatever arrives on its socket

\* a description or candidate of another participant that is addressed to a
\* participant other than the receiver
StrayRelay(c, type, i) ==
    /\ c \in Range(members) /\ i \in PcIds
    /\ pcs[i].owner # c /\ pcs[i].owner \in Range(members)
    /\ IsOpen(i) /\ pcs[i].local # NoDesc
    /\ type \in {"offer", "answer"} => pcs[i].local.type = type
    /\ redelivered < MaxRedeliver
    /\ redelivered' = redelivered + 1
    /\ inbox' = [inbox EXCEPT ![c] =
                   Append(@, Msg(type, pcs[i].owner, pcs[i].owner, pcs[i].local))]
    /\ UNCHANGED <<phase, wsRef, members, participants, peersRef, pcs, remoteStreams,
                   tasks, offersSent, mediaHist, transportFails, mediaOps, revokes>>
    /\ UNCHANGED chanVars
    /\ UNCHANGED deviceVars
    /\ UNCHANGED mediaVars

\* a snapshot or an announcement that names the receiver itself
DeliverSelf(c, type) ==
    /\ c \in Range(members)
    /\ redelivered < MaxRedeliver
    /\ redelivered' = redelivered + 1
    /\ inbox' = [inbox EXCEPT ![c] =
                   Append(@, IF type = "room_info"
                             THEN Msg("room_info", NoPeer, c, members)
                             ELSE Msg("user_joined", NoPeer, c, c))]
    /\ UNCHANGED <<phase, wsRef, members, participants, peersRef, pcs, remoteStreams,
                   tasks, offersSent, mediaHist, transportFails, mediaOps, revokes>>
    /\ UNCHANGED chanVars
    /\ UNCHANGED deviceVars
    /\ UNCHANGED mediaVars

----------------------------------------------------------------------------
\* ws.onmessage -> handleWebSocketMessage: the handler up to its first await.
\* onmessage does not wait for the previous handler, so handlers overlap.

OnRoomInfo(c, m) ==
    /\ participants' = [participants EXCEPT ![c] = m.body]
    /\ StartInitiator(c, "room_info", m.body, pcs, tasks)
    /\ UNCHANGED remoteStreams

OnUserJoined(c, m) ==
    /\ participants' = [participants EXCEPT ![c] = Append(@, m.body)]
    /\ StartInitiator(c, "user_joined", <<m.body>>, pcs, tasks)
    /\ UNCHANGED remoteStreams

\* variant of OnUserLeft: the participant is taken off the list, its connection
\* is kept
OnUserLeft_KeepsLink(c, m) ==
    /\ participants' = [participants EXCEPT ![c] = RemoveAll(@, m.body)]
    /\ UNCHANGED <<peersRef, pcs, remoteStreams, tasks>>

\* variant of OnUserLeft: the connection is closed, the participant stays on
\* the list
OnUserLeft_KeepsParticipant(c, m) ==
    /\ participants' = participants
    /\ ClosePeerConnection(c, m.body)
    /\ UNCHANGED tasks

\* user_left: the participant is filtered out of the list, closePeerConnection
OnUserLeft(c, m) ==
    /\ participants' = [participants EXCEPT ![c] = RemoveAll(@, m.body)]
    /\ ClosePeerConnection(c, m.body)
    /\ UNCHANGED tasks

\* variant of OnOffer: the connection for an unknown sender is created with
\* createPeerConnection(from, true)
OnOffer_AsInitiator(c, m) ==
    LET fresh == ~HasPeer(c, m.from)
        i == IF fresh THEN Len(pcs) + 1 ELSE peersRef[c][m.from]
        ts == AddTask(tasks, Task(c, "offer", m.from, i, "setRemote", m.body, <<>>))
    IN  /\ pcs' = IF fresh THEN Append(pcs, NewPc(c, m.from, LocalTracks(c))) ELSE pcs
        /\ peersRef' = [peersRef EXCEPT ![c][m.from] = i]
        /\ tasks' = IF fresh
                    THEN AddTask(ts, Task(c, "user_joined", m.from, i, "createOffer",
                                          NoDesc, <<>>))
                    ELSE ts
        /\ UNCHANGED <<participants, remoteStreams>>

\* handleOffer: createPeerConnection(from, false), then setRemoteDescription is awaited
OnOffer(c, m) ==
    LET fresh == ~HasPeer(c, m.from)
        i == IF fresh THEN Len(pcs) + 1 ELSE peersRef[c][m.from]
    IN  /\ pcs' = IF fresh THEN Append(pcs, NewPc(c, m.from, LocalTracks(c))) ELSE pcs
        /\ peersRef' = [peersRef EXCEPT ![c][m.from] = i]
        /\ tasks' = AddTask(tasks, Task(c, "offer", m.from, i, "setRemote", m.body, <<>>))
        /\ UNCHANGED <<participants, remoteStreams>>

\* variant of OnAnswer: handleAnswer is called whatever `to` says
OnAnswer_AnyAddressee(c, m) ==
    /\ tasks' = IF HasPeer(c, m.from)
                THEN AddTask(tasks, Task(c, "answer", m.from, peersRef[c][m.from],
                                         "setRemote", m.body, <<>>))
                ELSE tasks
    /\ UNCHANGED <<participants, peersRef, pcs, remoteStreams>>

\* handleAnswer, only for answers addressed to this user
OnAnswer(c, m) ==
    /\ tasks' = IF m.to = c /\ HasPeer(c, m.from)
                THEN AddTask(tasks, Task(c, "answer", m.from, peersRef[c][m.from],
                                         "setRemote", m.body, <<>>))
                ELSE tasks
    /\ UNCHANGED <<participants, peersRef, pcs, remoteStreams>>

RECURSIVE SeqOf(_)
SeqOf(S) == IF S = {} THEN <<>>
            ELSE LET x == CHOOSE y \in S : TRUE IN <<x>> \o SeqOf(S \ {x})

\* the descriptions whose setRemoteDescription has been called on connection i
\* and has not settled: handleOffer and handleAnswer reach that call in the
\* microtasks of their own message event
SettingRemote(i) == {u.desc : u \in {v \in Pending : v.pc = i /\ v.step = "setRemote"}}

\* the operations chain of a connection runs its calls in the order they were
\* made: a setRemoteDescription waits for every addIceCandidate that was called
\* before it (the ones that do not list it in rest)
ChainTurn(t) ==
    \A u \in Pending : (u.kind = "ice" /\ u.pc = t.pc) => t.desc \in Range(u.rest)

\* variant of OnIceCandidate: a connection is created for an unknown sender
OnIceCandidate_CreatesLink(c, m) ==
    LET fresh == ~HasPeer(c, m.from)
        i == IF fresh THEN Len(pcs) + 1 ELSE peersRef[c][m.from]
    IN  /\ pcs' = IF fresh THEN Append(pcs, NewPc(c, m.from, LocalTracks(c))) ELSE pcs
        /\ peersRef' = [peersRef EXCEPT ![c][m.from] = i]
        /\ tasks' = AddTask(tasks, Task(c, "ice", m.from, i, "add", m.body,
                                        IF fresh THEN <<>> ELSE SeqOf(SettingRemote(i))))
        /\ UNCHANGED <<participants, remoteStreams>>

\* handleIceCandidate: addIceCandidate on the connection of `from` is awaited;
\* without a connection nothing happens.  rest: the setRemoteDescription calls
\* that are ahead of this one on the connection's operations chain
OnIceCandidate(c, m) ==
    /\ tasks' = IF HasPeer(c, m.from)
                THEN AddTask(tasks, Task(c, "ice", m.from, peersRef[c][m.from], "add",
                                         m.body, SeqOf(SettingRemote(peersRef[c][m.from]))))
                ELSE tasks
    /\ UNCHANGED <<participants, peersRef, pcs, remoteStreams>>

\* user_audio_toggled / user_video_toggled: a toast
OnUserToggled(c, m) ==
    UNCHANGED <<participants, peersRef, pcs, remoteStreams, tasks>>

OnMessage(c) ==
    /\ inbox[c] # <<>>
    /\ LET m == Head(inbox[c]) IN
        /\ inbox' = [inbox EXCEPT ![c] = Tail(@)]
        /\ CASE m.type = "room_info" -> OnRoomInfo(c, m)
             [] m.type = "user_joined" -> OnUserJoined(c, m)
             [] m.type = "user_left" -> OnUserLeft(c, m)
             [] m.type = "offer" -> OnOffer(c, m)
             [] m.type = "answer" -> OnAnswer(c, m)
             [] m.type = "ice_candidate" -> OnIceCandidate(c, m)
             [] m.type \in {"user_audio_toggled", "user_video_toggled"} ->
                    OnUserToggled(c, m)
    /\ UNCHANGED <<phase, wsRef, members, offersSent, mediaHist>>
    /\ UNCHANGED chanVars
    /\ UNCHANGED deviceVars
    /\ UNCHANGED mediaVars
    /\ UNCHANGED budgetVars


----------------------------------------------------------------------------
\* Continuations of createPeerConnection(peerId, true)

IsInitiatorTask(t) == t.kind \in {"room_info", "user_joined"}

\* await peerConnection.createOffer(); a rejection is caught and logged
InitiatorCreateOffer(t) ==
    /\ IsInitiatorTask(t) /\ t.step = "createOffer"
    /\ IF IsOpen(t.pc)
       THEN /\ tasks' = AddTask(DelTask(tasks, t),
                           [t EXCEPT !.step = "setLocal", !.desc = Offer(t.owner, t.pc)])
            /\ UNCHANGED <<pcs, peersRef>>
       ELSE StartInitiator(t.owner, t.kind, t.rest, pcs, DelTask(tasks, t))
    /\ UNCHANGED <<phase, wsRef, members, inbox, participants, remoteStreams,
                   offersSent, mediaHist>>
    /\ UNCHANGED chanVars
    /\ UNCHANGED deviceVars
    /\ UNCHANGED mediaVars
    /\ UNCHANGED budgetVars

\* await peerConnection.setLocalDescription(offer); wsRef.current?.send(offer);
\* then the caller goes on (the next participant of room_info)
InitiatorSetLocal(t) ==
    /\ IsInitiatorTask(t) /\ t.step = "setLocal"
    /\ LET c == t.owner
           ok == pcs[t.pc].sig \in {"stable", "have-local-offer"}
           pcs1 == IF ok
                   THEN [pcs EXCEPT ![t.pc].sig = "have-local-offer", ![t.pc].local = t.desc]
                   ELSE pcs
       IN  /\ inbox' = IF ok THEN WsSend(inbox, c, t.peer, "offer", t.desc) ELSE inbox
           /\ offersSent' = IF ok THEN CountOffer(offersSent, t.kind, c, t.peer)
                            ELSE offersSent
           /\ StartInitiator(c, t.kind, t.rest, pcs1, DelTask(tasks, t))
    /\ UNCHANGED <<phase, wsRef, members, participants, remoteStreams, mediaHist>>
    /\ UNCHANGED chanVars
    /\ UNCHANGED deviceVars
    /\ UNCHANGED mediaVars
    /\ UNCHANGED budgetVars

----------------------------------------------------------------------------
\* Continuations of handleOffer / handleAnswer.  An exception leaves the
\* handler and is logged by onmessage.

\* ontrack: the remote stream is stored under the peer id of the connection
OnTrack(i, desc) ==
    remoteStreams' = IF desc.tracks # {}
                     THEN [remoteStreams EXCEPT ![pcs[i].owner] = @ \cup {pcs[i].peer}]
                     ELSE remoteStreams

\* await setRemoteDescription(offer).  In have-local-offer the browser either
\* rolls the pending local offer back or rejects with InvalidStateError.
OfferSetRemote(t, rollback) ==
    /\ t.kind = "offer" /\ t.step = "setRemote"
    /\ ChainTurn(t)
    /\ LET sig == pcs[t.pc].sig
           applies == sig \in {"stable", "have-remote-offer"}
                        \/ (sig = "have-local-offer" /\ rollback)
       IN  /\ sig # "have-local-offer" => ~rollback
           /\ IF applies
              THEN /\ pcs' = [pcs EXCEPT ![t.pc].sig = "have-remote-offer",
                                         ![t.pc].remote = t.desc,
                                         ![t.pc].local = IF sig = "have-local-offer"
                                                         THEN NoDesc ELSE @]
                   /\ OnTrack(t.pc, t.desc)
                   /\ tasks' = AddTask(DelTask(tasks, t), [t EXCEPT !.step = "createAnswer"])
              ELSE /\ tasks' = DelTask(tasks, t)
                   /\ UNCHANGED <<pcs, remoteStreams>>
    /\ UNCHANGED <<phase, wsRef, members, inbox, participants, peersRef,
                   offersSent, mediaHist>>
    /\ UNCHANGED chanVars
    /\ UNCHANGED deviceVars
    /\ UNCHANGED mediaVars
    /\ UNCHANGED budgetVars

\* await createAnswer()
OfferCreateAnswer(t) ==
    /\ t.kind = "offer" /\ t.step = "createAnswer"
    /\ tasks' = IF pcs[t.pc].sig = "have-remote-offer"
                THEN AddTask(DelTask(tasks, t),
                             [t EXCEPT !.step = "setLocal", !.desc = Answer(t.owner, t.pc)])
                ELSE DelTask(tasks, t)
    /\ UNCHANGED <<phase, wsRef, members, inbox, participants, peersRef, pcs,
                   remoteStreams, offersSent, mediaHist>>
    /\ UNCHANGED chanVars
    /\ UNCHANGED deviceVars
    /\ UNCHANGED mediaVars
    /\ UNCHANGED budgetVars

\* variant of OfferSetLocal: the answer is sent with the client's own id as `to`
OfferSetLocal_AnswerToSelf(t) ==
    /\ t.kind = "offer" /\ t.step = "setLocal"
    /\ LET ok == pcs[t.pc].sig = "have-remote-offer" IN
        /\ pcs' = IF ok
                  THEN [pcs EXCEPT ![t.pc].sig = "stable", ![t.pc].local = t.desc]
                  ELSE pcs
        /\ inbox' = IF ok THEN WsSend(inbox, t.owner, t.owner, "answer", t.desc) ELSE inbox
    /\ tasks' = DelTask(tasks, t)
    /\ UNCHANGED <<phase, wsRef, members, participants, peersRef, remoteStreams,
                   offersSent, mediaHist>>
    /\ UNCHANGED chanVars
    /\ UNCHANGED deviceVars
    /\ UNCHANGED mediaVars
    /\ UNCHANGED budgetVars

\* await setLocalDescription(answer); wsRef.current?.send(answer to from)
OfferSetLocal(t) ==
    /\ t.kind = "offer" /\ t.step = "setLocal"
    /\ LET ok == pcs[t.pc].sig = "have-remote-offer" IN
        /\ pcs' = IF ok
                  THEN [pcs EXCEPT ![t.pc].sig = "stable", ![t.pc].local = t.desc]
                  ELSE pcs
        /\ inbox' = IF ok THEN WsSend(inbox, t.owner, t.peer, "answer", t.desc) ELSE inbox
    /\ tasks' = DelTask(tasks, t)
    /\ UNCHANGED <<phase, wsRef, members, participants, peersRef, remoteStreams,
                   offersSent, mediaHist>>
    /\ UNCHANGED chanVars
    /\ UNCHANGED deviceVars
    /\ UNCHANGED mediaVars
    /\ UNCHANGED budgetVars

\* handleAnswer: await setRemoteDescription(answer)
AnswerSetRemote(t) ==
    /\ t.kind = "answer" /\ t.step = "setRemote"
    /\ ChainTurn(t)
    /\ IF pcs[t.pc].sig = "have-local-offer"
       THEN /\ pcs' = [pcs EXCEPT ![t.pc].sig = "stable", ![t.pc].remote = t.desc]
            /\ OnTrack(t.pc, t.desc)
       ELSE UNCHANGED <<pcs, remoteStreams>>
    /\ tasks' = DelTask(tasks, t)
    /\ UNCHANGED <<phase, wsRef, members, inbox, participants, peersRef,
                   offersSent, mediaHist>>
    /\ UNCHANGED chanVars
    /\ UNCHANGED deviceVars
    /\ UNCHANGED mediaVars
    /\ UNCHANGED budgetVars

\* await addIceCandidate(): it runs when the calls ahead of it on the operations
\* chain have settled, and rejects (InvalidStateError, logged by onmessage) on a
\* closed connection and on one without a remote description
IceAdd(t) ==
    /\ t.kind = "ice" /\ t.step = "add"
    /\ \A k \in 1..Len(t.rest) : t.rest[k] \notin SettingRemote(t.pc)
    /\ pcs' = IF IsOpen(t.pc) /\ pcs[t.pc].remote # NoDesc
              THEN [pcs EXCEPT ![t.pc].added = @ + 1] ELSE pcs
    /\ tasks' = DelTask(tasks, t)
    /\ UNCHANGED <<phase, wsRef, members, inbox, participants, peersRef,
                   remoteStreams, offersSent, mediaHist>>
    /\ UNCHANGED chanVars
    /\ UNCHANGED deviceVars
    /\ UNCHANGED mediaVars
    /\ UNCHANGED budgetVars

----------------------------------------------------------------------------
\* Transport events of a connection object

\* the two ends hold each other's descriptions of one offer/answer exchange
Matched(i, j) ==
    /\ pcs[j].owner = pcs[i].peer /\ pcs[j].peer = pcs[i].owner
    /\ pcs[i].sig = "stable" /\ pcs[j].sig = "stable"
    /\ pcs[i].local # NoDesc /\ pcs[j].local # NoDesc
    /\ pcs[i].remote = pcs[j].local /\ pcs[j].remote = pcs[i].local
    /\ pcs[i].local.type # pcs[j].local.type
    /\ \/ pcs[i].local.type = "answer" /\ pcs[i].local.re = pcs[j].local.tracks
       \/ pcs[j].local.type = "answer" /\ pcs[j].local.re = pcs[i].local.tracks

\* connectionState becomes "connected"
TransportConnected(i) ==
    /\ pcs[i].conn = "new"
    /\ \E j \in PcIds : Matched(i, j)
    /\ pcs' = [pcs EXCEPT ![i].conn = "connected"]
    /\ UNCHANGED <<phase, wsRef, members, inbox, participants, peersRef,
                   remoteStreams, tasks, offersSent, mediaHist>>
    /\ UNCHANGED chanVars
    /\ UNCHANGED deviceVars
    /\ UNCHANGED mediaVars
    /\ UNCHANGED budgetVars

\* event.candidate, represented by the local description it was gathered for
Candidate(i) == pcs[i].local

\* onicecandidate: a connection that has a local description hands out a
\* candidate, which is sent to the peer the connection was created for when the
\* channel is open
IceCandidate(i) ==
    /\ IsOpen(i) /\ pcs[i].local # NoDesc
    /\ pcs[i].ice < MaxCandidates
    /\ pcs' = [pcs EXCEPT ![i].ice = @ + 1]
    /\ inbox' = WsSend(inbox, pcs[i].owner, pcs[i].peer, "ice_candidate",
                       Candidate(i))
    /\ UNCHANGED <<phase, wsRef, members, participants, peersRef, remoteStreams,
                   tasks, offersSent, mediaHist>>
    /\ UNCHANGED chanVars
    /\ UNCHANGED deviceVars
    /\ UNCHANGED mediaVars
    /\ UNCHANGED budgetVars

\* variant of TransportFailed: the failure is handled like user_left, the
\* participant is dropped from the list as well
TransportFailed_AsUserLeft(i) ==
    /\ IsOpen(i)
    /\ pcs[i].local # NoDesc /\ pcs[i].remote # NoDesc
    /\ transportFails < MaxTransportFail
    /\ transportFails' = transportFails + 1
    /\ LET c == pcs[i].owner
           p == pcs[i].peer
       IN  /\ pcs' = CloseEntry([pcs EXCEPT ![i].conn = "failed"], c, p)
           /\ peersRef' = [peersRef EXCEPT ![c][p] = NoPc]
           /\ remoteStreams' = [remoteStreams EXCEPT ![c] = @ \ {p}]
           /\ participants' = [participants EXCEPT ![c] = RemoveAll(@, p)]
    /\ UNCHANGED <<phase, wsRef, members, inbox, tasks,
                   offersSent, mediaHist, redelivered, mediaOps, revokes>>
    /\ UNCHANGED chanVars
    /\ UNCHANGED deviceVars
    /\ UNCHANGED mediaVars

\* variant of TransportFailed: the failure of one link tears down every link of
\* the client
TransportFailed_ClosesAll(i) ==
    /\ IsOpen(i)
    /\ pcs[i].local # NoDesc /\ pcs[i].remote # NoDesc
    /\ transportFails < MaxTransportFail
    /\ transportFails' = transportFails + 1
    /\ LET c == pcs[i].owner
       IN  /\ pcs' = [j \in PcIds |->
                        IF j = i THEN ClosedPc([pcs[j] EXCEPT !.conn = "failed"])
                        ELSE ClosedPc(pcs[j])]
           /\ peersRef' = [x \in Clients |-> [p \in Clients |-> NoPc]]
           /\ remoteStreams' = [remoteStreams EXCEPT ![c] = {}]
    /\ UNCHANGED <<phase, wsRef, members, inbox, participants, tasks,
                   offersSent, mediaHist, redelivered, mediaOps, revokes>>
    /\ UNCHANGED chanVars
    /\ UNCHANGED deviceVars
    /\ UNCHANGED mediaVars

\* onconnectionstatechange with "failed" or "disconnected": closePeerConnection(peerId).
\* The transport of a connection only fails once it has both descriptions to
\* run connectivity checks with.
TransportFailed(i) ==
    /\ IsOpen(i)
    /\ pcs[i].local # NoDesc /\ pcs[i].remote # NoDesc
    /\ transportFails < MaxTransportFail
    /\ transportFails' = transportFails + 1
    /\ LET c == pcs[i].owner
           p == pcs[i].peer
       IN  /\ pcs' = CloseEntry([pcs EXCEPT ![i].conn = "failed"], c, p)
           /\ peersRef' = [peersRef EXCEPT ![c][p] = NoPc]
           /\ remoteStreams' = [remoteStreams EXCEPT ![c] = @ \ {p}]
    /\ UNCHANGED <<phase, wsRef, members, inbox, participants, tasks,
                   offersSent, mediaHist, redelivered, mediaOps, revokes>>
    /\ UNCHANGED chanVars
    /\ UNCHANGED deviceVars
    /\ UNCHANGED mediaVars

\* the server announces a member once more (re-discovery)
RedeliverUserJoined(c, p) ==
    /\ c # p /\ c \in Range(members) /\ p \in Range(members)
    /\ redelivered < MaxRedeliver
    /\ redelivered' = redelivered + 1
    /\ inbox' = [inbox EXCEPT ![c] = Append(@, Msg("user_joined", NoPeer, c, p))]
    /\ UNCHANGED <<phase, wsRef, members, participants, peersRef, pcs, remoteStreams,
                   tasks, offersSent, mediaHist, transportFails, mediaOps, revokes>>
    /\ UNCHANGED chanVars
    /\ UNCHANGED deviceVars
    /\ UNCHANGED mediaVars

----------------------------------------------------------------------------
\* initializeCall step by step, and the events of the signaling channel

LookupResults == {"ok", "404", "403", "error"}

\* variant of LookupFailed: a 404 / 403 is treated like any other error and
\* the setup goes on to the media
LookupFailed_Continues(c, r) ==
    /\ initPc' = [initPc EXCEPT ![c] = "media"]
    /\ toasts' = [toasts EXCEPT ![c] = @ \cup {"Some features may not be available"}]
    /\ UNCHANGED onCloseCalled

\* variant of LookupFailed: every failure of the lookup gives the call up
LookupFailed_AlwaysCloses(c, r) ==
    /\ initPc' = [initPc EXCEPT ![c] = "aborted"]
    /\ toasts' = [toasts EXCEPT ![c] = @ \cup {"Some features may not be available"}]
    /\ onCloseCalled' = [onCloseCalled EXCEPT ![c] = TRUE]

\* initializeCall, outer catch: 404 and 403 show their error and call onClose();
\* any other error shows a warning, and connectWebSocket is not reached because
\* the roomId this closure reads is still null
LookupFailed(c, r) ==
    IF r \in {"404", "403"}
    THEN /\ initPc' = [initPc EXCEPT ![c] = "aborted"]
         /\ toasts' = [toasts EXCEPT ![c] = @ \cup
                          {IF r = "404" THEN "Meeting not found"
                           ELSE "You do not have permission to join this meeting"}]
         /\ onCloseCalled' = [onCloseCalled EXCEPT ![c] = TRUE]
    ELSE /\ initPc' = [initPc EXCEPT ![c] = "failed"]
         /\ toasts' = [toasts EXCEPT ![c] = @ \cup {"Some features may not be available"}]
         /\ UNCHANGED onCloseCalled

\* initializeCall: await api.get(room info) returns or throws; on success
\* startLocalStream is entered
InitLookup(c, r) ==
    /\ initPc[c] = "lookup"
    /\ lookupResult' = [lookupResult EXCEPT ![c] = r]
    /\ IF r = "ok"
       THEN /\ initPc' = [initPc EXCEPT ![c] = "media"]
            /\ UNCHANGED <<toasts, onCloseCalled>>
       ELSE LookupFailed(c, r)
    /\ UNCHANGED <<isConnected, sockets, wsSock, timers, failedAttempts, channelFails>>
    /\ UNCHANGED sigVars
    /\ UNCHANGED mediaVars
    /\ UNCHANGED mediaHist
    /\ UNCHANGED budgetVars
    /\ UNCHANGED deviceVars

\* initializeCall: await startLocalStream() returns, connectWebSocket(roomId)
\* is called and awaited
InitMedia(c, aok, vok) ==
    /\ initPc[c] = "media"
    /\ initPc' = [initPc EXCEPT ![c] = "connect"]
    /\ StartLocalStream(c, aok, vok)
    /\ ConnectWebSocket(c, "init")
    /\ UNCHANGED <<phase, members, inbox, participants, peersRef, pcs, remoteStreams,
                   tasks, offersSent, stopped, trackOff, micDeviceAvailable, mediaHist>>
    /\ UNCHANGED <<lookupResult, isConnected, timers, toasts, onCloseCalled,
                   failedAttempts, channelFails>>
    /\ UNCHANGED budgetVars
    /\ UNCHANGED deviceVars

SocketIds(c) == 1..Len(sockets[c])

\* ws.onopen: setIsConnected(true), resolve(); the server admits the client
WsOpen(c, i) ==
    LET sk == sockets[c][i]
        socks == [sockets[c] EXCEPT ![i].state = "open", ![i].settled = TRUE,
                                    ![i].timeout = FALSE]
    IN  /\ sk.state = "connecting"
        /\ sockets' = [sockets EXCEPT ![c] = socks]
        /\ wsRef' = [wsRef EXCEPT ![c] = RefState(socks, wsSock[c])]
        /\ isConnected' = [isConnected EXCEPT ![c] = TRUE]
        /\ initPc' = [initPc EXCEPT ![c] =
                         IF sk.awaited = "init" /\ ~sk.settled THEN "done" ELSE @]
        /\ phase' = [phase EXCEPT ![c] = IF @ = "idle" THEN "joined" ELSE @]
        /\ failedAttempts' = [failedAttempts EXCEPT ![c] = 0]
        /\ inbox' = ServerJoin(inbox, c)
        /\ members' = Append(members, c)
        /\ UNCHANGED <<participants, peersRef, pcs, remoteStreams, tasks, offersSent,
                       mediaHist>>
        /\ UNCHANGED <<lookupResult, wsSock, timers, toasts, onCloseCalled, channelFails>>
        /\ UNCHANGED mediaVars
        /\ UNCHANGED budgetVars
        /\ UNCHANGED deviceVars

FailureKinds == {"network", "rejected"}

\* the connection of a socket fails: the network drops it, or the server refuses
\* the handshake (room not found, unauthorized).  The client sees the same
\* error and close events (code 1006) in both cases.
WsFail(c, i, why) ==
    LET sk == sockets[c][i]
        socks == [sockets[c] EXCEPT ![i].state = "closed", ![i].settled = TRUE,
                                    ![i].timeout = FALSE, ![i].why = why]
    IN  /\ Live(sk)
        /\ why = "rejected" => sk.state = "connecting"
        /\ channelFails < MaxChannelFail
        /\ channelFails' = channelFails + 1
        /\ sockets' = [sockets EXCEPT ![c] = socks]
        /\ wsRef' = [wsRef EXCEPT ![c] = RefState(socks, wsSock[c])]
        /\ isConnected' = [isConnected EXCEPT ![c] = FALSE]
        /\ timers' = [timers EXCEPT ![c] = CloseEventTimers(sk, @, wsSock[c], TRUE)]
        /\ toasts' = [toasts EXCEPT ![c] = RejectToasts(sk, @)]
        /\ initPc' = [initPc EXCEPT ![c] = RejectPc(sk, @)]
        /\ failedAttempts' = [failedAttempts EXCEPT ![c] =
                                 IF sk.state = "connecting" /\ sk.awaited = "none"
                                 THEN @ + 1 ELSE @]
        /\ members' = IF sk.state = "open" THEN RemoveAll(members, c) ELSE members
        /\ inbox' = IF sk.state = "open" THEN ServerLeave(inbox, c) ELSE inbox
        /\ UNCHANGED <<phase, participants, peersRef, pcs, remoteStreams, tasks,
                       offersSent, mediaHist>>
        /\ UNCHANGED <<lookupResult, wsSock, onCloseCalled>>
        /\ UNCHANGED mediaVars
        /\ UNCHANGED budgetVars
        /\ UNCHANGED deviceVars

\* the 10-second timer of connectWebSocket fires while the socket is not open:
\* ws.close(), reject(timeout)
WsTimeout(c, i) ==
    LET sk == sockets[c][i]
        socks == [sockets[c] EXCEPT
                     ![i].state = IF sk.state = "connecting" THEN "closing" ELSE @,
                     ![i].why = IF sk.state = "connecting" THEN "abort" ELSE @,
                     ![i].settled = TRUE, ![i].timeout = FALSE]
    IN  /\ sk.timeout /\ sk.state \in {"connecting", "closing"}
        /\ sk.state = "connecting" => channelFails < MaxChannelFail
        /\ channelFails' = IF sk.state = "connecting" THEN channelFails + 1
                           ELSE channelFails
        /\ sockets' = [sockets EXCEPT ![c] = socks]
        /\ wsRef' = [wsRef EXCEPT ![c] = RefState(socks, wsSock[c])]
        /\ timers' = [timers EXCEPT ![c] = RejectTimers(sk, @)]
        /\ toasts' = [toasts EXCEPT ![c] = RejectToasts(sk, @)]
        /\ initPc' = [initPc EXCEPT ![c] = RejectPc(sk, @)]
        /\ failedAttempts' = [failedAttempts EXCEPT ![c] =
                                 IF sk.state = "connecting" /\ sk.awaited = "none"
                                 THEN @ + 1 ELSE @]
        /\ UNCHANGED <<phase, members, inbox, participants, peersRef, pcs,
                       remoteStreams, tasks, offersSent>>
        /\ UNCHANGED <<lookupResult, isConnected, wsSock, onCloseCalled, mediaHist>>
        /\ UNCHANGED mediaVars
        /\ UNCHANGED budgetVars
        /\ UNCHANGED deviceVars

\* a socket the client closed reaches CLOSED: error and close events when it was
\* closed while connecting, the close event alone when it was open
WsClosed(c, i) ==
    LET sk == sockets[c][i]
        socks == [sockets[c] EXCEPT ![i].state = "closed", ![i].settled = TRUE,
                                    ![i].timeout = FALSE]
    IN  /\ sk.state = "closing"
        /\ sockets' = [sockets EXCEPT ![c] = socks]
        /\ wsRef' = [wsRef EXCEPT ![c] = RefState(socks, wsSock[c])]
        /\ isConnected' = [isConnected EXCEPT ![c] = FALSE]
        /\ timers' = [timers EXCEPT ![c] =
                         CloseEventTimers(sk, @, wsSock[c], sk.why = "abort")]
        /\ toasts' = [toasts EXCEPT ![c] =
                         IF sk.why = "abort" THEN RejectToasts(sk, @) ELSE @]
        /\ initPc' = [initPc EXCEPT ![c] =
                         IF sk.why = "abort" THEN RejectPc(sk, @) ELSE @]
        /\ UNCHANGED <<phase, members, inbox, participants, peersRef, pcs,
                       remoteStreams, tasks, offersSent, mediaHist>>
        /\ UNCHANGED <<lookupResult, wsSock, onCloseCalled, failedAttempts, channelFails>>
        /\ UNCHANGED mediaVars
        /\ UNCHANGED budgetVars
        /\ UNCHANGED deviceVars

\* the server closes an admitted socket with the normal closure code: the close
\* event alone, with code 1000
WsServerClose(c, i) ==
    LET sk == sockets[c][i]
        socks == [sockets[c] EXCEPT ![i].state = "closed", ![i].why = "normal"]
    IN  /\ sk.state = "open"
        /\ sockets' = [sockets EXCEPT ![c] = socks]
        /\ wsRef' = [wsRef EXCEPT ![c] = RefState(socks, wsSock[c])]
        /\ isConnected' = [isConnected EXCEPT ![c] = FALSE]
        /\ timers' = [timers EXCEPT ![c] = OnClose(@, 1000, wsSock[c])]
        /\ members' = RemoveAll(members, c)
        /\ inbox' = ServerLeave(inbox, c)
        /\ UNCHANGED <<phase, participants, peersRef, pcs, remoteStreams, tasks,
                       offersSent, mediaHist>>
        /\ UNCHANGED <<initPc, lookupResult, wsSock, toasts, onCloseCalled,
                       failedAttempts, channelFails>>
        /\ UNCHANGED mediaVars
        /\ UNCHANGED budgetVars
        /\ UNCHANGED deviceVars

\* the oldest 3-second timer fires (equal delays: they fire in the order set).
\* reconnect: connectWebSocket if wsRef.current is CLOSED.
\* retry (initializeCall): connectWebSocket if (!isConnected).
TimerFire(c) ==
    /\ timers[c] # <<>>
    /\ timers' = [timers EXCEPT ![c] = Tail(@)]
    /\ LET kind == Head(timers[c])
           fires == IF kind = "reconnect" THEN wsRef[c] = "closed"
                    ELSE ~StaleIsConnected
       IN  IF fires
           THEN ConnectWebSocket(c, IF kind = "retry" THEN "retry" ELSE "none")
           ELSE UNCHANGED <<sockets, wsSock, wsRef>>
    /\ UNCHANGED <<phase, members, inbox, participants, peersRef, pcs, remoteStreams,
                   tasks, offersSent, mediaHist>>
    /\ UNCHANGED <<initPc, lookupResult, isConnected, toasts, onCloseCalled,
                   failedAttempts, channelFails>>
    /\ UNCHANGED mediaVars
    /\ UNCHANGED budgetVars
    /\ UNCHANGED deviceVars

----------------------------------------------------------------------------
\* Local media: the operations behind the permission buttons

Linked(c) == {p \in Clients : HasPeer(c, p)}

\* the connection objects in peersRef.current
LinkedPcs(c) == {peersRef[c][p] : p \in Linked(c)}

HasLiveAudio(c) == OfKind(LiveLocalTracks(c), "audio") # {}

AllConnected(c) ==
    Linked(c) # {} /\ \A i \in LinkedPcs(c) : pcs[i].conn = "connected"

\* history of the local media; userOp: the step is an operation the user starts
HistUpdate(c, userOp) ==
    mediaHist' = [mediaHist EXCEPT
        ![c].audioFlips = IF Linked(c) # {} /\ HasLiveAudio(c) # HasLiveAudio(c)'
                          THEN @ + 1 ELSE @,
        ![c].opsConnected = IF userOp /\ AllConnected(c) THEN @ + 1 ELSE @]

\* getSenders().find(...): the first sender, senders being kept in creation order
FirstSender(ts) == CHOOSE t \in ts : \A u \in ts : t.n <= u.n

\* forEach(track => forEach(peerConnection => removeTrack(sender of track)))
RemoveSenders(ps, c, ts) ==
    [i \in DOMAIN ps |-> IF i \in LinkedPcs(c)
                         THEN [ps[i] EXCEPT !.senders = @ \ ts] ELSE ps[i]]

\* per linked connection: replaceTrack on the sender of the same kind when there
\* is one (settled later), addTrack otherwise
AttachTrack(ps, c, new) ==
    [i \in DOMAIN ps |-> IF i \in LinkedPcs(c) /\ OfKind(ps[i].senders, new.kind) = {}
                         THEN [ps[i] EXCEPT !.senders = @ \cup {new}] ELSE ps[i]]

ReplaceTask(c, i, old, new, onReject) ==
    [Task(c, "replace", pcs[i].peer, i, "settle", NoDesc, <<>>)
        EXCEPT !.old = old, !.new = new, !.rest = <<onReject>>]

ReplaceTasks(ps, c, new, onReject) ==
    {ReplaceTask(c, i, FirstSender(OfKind(ps[i].senders, new.kind)), new, onReject) :
        i \in {j \in LinkedPcs(c) : OfKind(ps[j].senders, new.kind) # {}}}

\* peerConnection.createOffer().then(setLocalDescription).then(send)
RenegTask(c, i, guarded) ==
    [Task(c, "reneg", pcs[i].peer, i, "createOffer", NoDesc, <<>>) EXCEPT !.guarded = guarded]

RenegTasks(c, guarded) == {RenegTask(c, i, guarded) : i \in LinkedPcs(c)}

\* connections to which a track of that kind is added (no sender of the kind yet)
AddedTo(ps, c, new) == {i \in LinkedPcs(c) : OfKind(ps[i].senders, new.kind) = {}}

NextTrack(c, k) == Track(c, k, trackCount[c] + 1)

MicResults == {"ok", "NotAllowedError", "NotFoundError", "NotReadableError",
               "OverconstrainedError"}

\* enableMicrophone after getUserMedia succeeded (with the full or the minimal
\* constraints): the stream keeps its old audio tracks, stopped
MicrophoneGranted(c, ts) ==
    LET new == NextTrack(c, "audio")
        old == OfKind(LocalTracks(c), "audio")
        pcs1 == RemoveSenders(pcs, c, old)
    IN  /\ trackCount' = [trackCount EXCEPT ![c] = @ + 1]
        /\ stopped' = stopped \cup old
        /\ trackOff' = trackOff
        /\ localStreamRef' = [localStreamRef EXCEPT ![c] =
                                 [present |-> TRUE, tracks |-> LocalTracks(c) \cup {new}]]
        /\ audioEnabled' = [audioEnabled EXCEPT ![c] = TRUE]
        /\ micPermissionDenied' = [micPermissionDenied EXCEPT ![c] = FALSE]
        /\ isRequestingPermissions' = [isRequestingPermissions EXCEPT ![c] = FALSE]
        /\ pcs' = AttachTrack(pcs1, c, new)
        /\ tasks' = ts (+) SetToBag(ReplaceTasks(pcs1, c, new, "add"))
                       (+) SetToBag(RenegTasks(c, TRUE))
        /\ UNCHANGED <<videoEnabled, cameraPermissionDenied, micDeviceAvailable>>

\* enableMicrophone when getUserMedia failed with both constraint sets
MicrophoneFailed(c, r, ts, after) ==
    /\ micPermissionDenied' = [micPermissionDenied EXCEPT ![c] = TRUE]
    /\ tasks' = IF r \in {"NotFoundError", "OverconstrainedError"}
                THEN AddTask(ts, [Task(c, "micFallback", NoPeer, NoPc, r, NoDesc, after)
                                    EXCEPT !.guarded = TRUE])
                ELSE IF after # <<>>
                THEN AddTask(ts, Task(c, "grantAll", NoPeer, NoPc, "camera", NoDesc, <<>>))
                ELSE ts
    /\ UNCHANGED <<localStreamRef, stopped, trackOff, trackCount, audioEnabled, videoEnabled,
                   cameraPermissionDenied, micDeviceAvailable, isRequestingPermissions,
                   pcs>>

EnableMicrophoneBody(c, r, ts, after) ==
    IF r = "ok"
    THEN MicrophoneGranted(c, IF after # <<>>
                              THEN AddTask(ts, Task(c, "grantAll", NoPeer, NoPc, "camera",
                                                    NoDesc, <<>>))
                              ELSE ts)
    ELSE MicrophoneFailed(c, r, ts, after)

\* enableMicrophone, from its button
EnableMicrophone(c, r) ==
    /\ phase[c] = "joined"
    /\ mediaOps < MaxMediaOps
    /\ mediaOps' = mediaOps + 1
    /\ EnableMicrophoneBody(c, r, tasks, <<>>)
    /\ UNCHANGED <<phase, wsRef, members, inbox, participants, peersRef, remoteStreams,
                   offersSent, redelivered, transportFails, revokes>>
    /\ HistUpdate(c, TRUE)
    /\ UNCHANGED chanVars
    /\ UNCHANGED deviceVars

\* enableMicrophone, catch branch: the further getUserMedia({audio: true}) after
\* NotFoundError or OverconstrainedError
MicFallback(t, ok) ==
    /\ t.kind = "micFallback"
    /\ LET c == t.owner
           new == NextTrack(c, "audio")
           old == OfKind(LocalTracks(c), "audio")
           ts == IF t.rest # <<>>
                 THEN AddTask(DelTask(tasks, t),
                              Task(c, "grantAll", NoPeer, NoPc, "camera", NoDesc, <<>>))
                 ELSE DelTask(tasks, t)
       IN  IF ok
           THEN /\ trackCount' = [trackCount EXCEPT ![c] = @ + 1]
                /\ stopped' = stopped \cup old
                /\ trackOff' = trackOff
                /\ localStreamRef' = [localStreamRef EXCEPT ![c] =
                                     [present |-> TRUE, tracks |-> LocalTracks(c) \cup {new}]]
                /\ audioEnabled' = [audioEnabled EXCEPT ![c] = TRUE]
                /\ micPermissionDenied' = [micPermissionDenied EXCEPT ![c] = FALSE]
                /\ micDeviceAvailable' = [micDeviceAvailable EXCEPT ![c] =
                                            IF t.step = "NotFoundError" THEN "true" ELSE @]
                /\ isRequestingPermissions' = [isRequestingPermissions EXCEPT ![c] =
                                            IF t.step = "NotFoundError" THEN FALSE ELSE @]
                /\ pcs' = AttachTrack(pcs, c, new)
                /\ tasks' = ts (+) SetToBag(ReplaceTasks(pcs, c, new,
                                      IF t.step = "NotFoundError" THEN "add" ELSE "none"))
                               (+) SetToBag(RenegTasks(c, TRUE))
           ELSE /\ micDeviceAvailable' = [micDeviceAvailable EXCEPT ![c] =
                                            IF t.step = "NotFoundError" THEN "false" ELSE @]
                /\ tasks' = ts
                /\ UNCHANGED <<localStreamRef, stopped, trackOff, trackCount, audioEnabled,
                               micPermissionDenied, isRequestingPermissions, pcs>>
    /\ UNCHANGED <<phase, wsRef, members, inbox, participants, peersRef, remoteStreams,
                   videoEnabled, cameraPermissionDenied, offersSent>>
    /\ UNCHANGED budgetVars
    /\ HistUpdate(t.owner, FALSE)
    /\ UNCHANGED chanVars
    /\ UNCHANGED deviceVars

\* enableCamera: the old video tracks are stopped but stay in the stream and on
\* their senders
EnableCameraBody(c, ok, ts, clearReq) ==
    LET new == NextTrack(c, "video")
        old == OfKind(LocalTracks(c), "video")
    IN  IF ok
        THEN /\ trackCount' = [trackCount EXCEPT ![c] = @ + 1]
             /\ stopped' = stopped \cup old
             /\ trackOff' = trackOff
             /\ localStreamRef' = [localStreamRef EXCEPT ![c] =
                                     [present |-> TRUE, tracks |-> LocalTracks(c) \cup {new}]]
             /\ videoEnabled' = [videoEnabled EXCEPT ![c] = TRUE]
             /\ cameraPermissionDenied' = [cameraPermissionDenied EXCEPT ![c] = FALSE]
             /\ isRequestingPermissions' = [isRequestingPermissions EXCEPT ![c] = FALSE]
             /\ pcs' = AttachTrack(pcs, c, new)
             /\ tasks' = ts (+) SetToBag(ReplaceTasks(pcs, c, new, "log"))
                            (+) SetToBag(RenegTasks(c, FALSE))
        ELSE /\ cameraPermissionDenied' = [cameraPermissionDenied EXCEPT ![c] = TRUE]
             /\ isRequestingPermissions' = [isRequestingPermissions EXCEPT ![c] =
                                               IF clearReq THEN FALSE ELSE @]
             /\ tasks' = ts
             /\ UNCHANGED <<localStreamRef, stopped, trackOff, trackCount, videoEnabled, pcs>>

EnableCamera(c, ok) ==
    /\ phase[c] = "joined"
    /\ mediaOps < MaxMediaOps
    /\ mediaOps' = mediaOps + 1
    /\ EnableCameraBody(c, ok, tasks, FALSE)
    /\ UNCHANGED <<phase, wsRef, members, inbox, participants, peersRef, remoteStreams,
                   audioEnabled, micPermissionDenied, micDeviceAvailable,
                   offersSent, redelivered, transportFails, revokes>>
    /\ HistUpdate(c, TRUE)
    /\ UNCHANGED chanVars
    /\ UNCHANGED deviceVars

\* grantAllPermissions: one request for both kinds; on failure enableMicrophone
\* and then enableCamera are awaited
GrantAllPermissions(c, ok) ==
    /\ phase[c] = "joined"
    /\ mediaOps < MaxMediaOps
    /\ mediaOps' = mediaOps + 1
    /\ LET a == Track(c, "audio", trackCount[c] + 1)
           v == Track(c, "video", trackCount[c] + 1)
           pcs1 == RemoveSenders(pcs, c, LocalTracks(c))
           pcs2 == AttachTrack(pcs1, c, a)
       IN  IF ok
           THEN /\ trackCount' = [trackCount EXCEPT ![c] = @ + 1]
                /\ stopped' = stopped \cup LocalTracks(c)
                /\ trackOff' = trackOff
                /\ localStreamRef' = [localStreamRef EXCEPT ![c] =
                                        [present |-> TRUE, tracks |-> {a, v}]]
                /\ audioEnabled' = [audioEnabled EXCEPT ![c] = TRUE]
                /\ videoEnabled' = [videoEnabled EXCEPT ![c] = TRUE]
                /\ micPermissionDenied' = [micPermissionDenied EXCEPT ![c] = FALSE]
                /\ cameraPermissionDenied' = [cameraPermissionDenied EXCEPT ![c] = FALSE]
                /\ isRequestingPermissions' = [isRequestingPermissions EXCEPT ![c] = FALSE]
                /\ pcs' = AttachTrack(pcs2, c, v)
                /\ tasks' = tasks (+) SetToBag(ReplaceTasks(pcs1, c, a, "log"))
                                  (+) SetToBag(ReplaceTasks(pcs2, c, v, "log"))
                                  (+) SetToBag(RenegTasks(c, TRUE))
           ELSE /\ isRequestingPermissions' = [isRequestingPermissions EXCEPT ![c] = TRUE]
                /\ tasks' = AddTask(tasks, Task(c, "grantAll", NoPeer, NoPc, "mic",
                                                NoDesc, <<>>))
                /\ UNCHANGED <<localStreamRef, stopped, trackOff, trackCount, audioEnabled,
                               videoEnabled, micPermissionDenied, cameraPermissionDenied,
                               pcs>>
    /\ UNCHANGED <<phase, wsRef, members, inbox, participants, peersRef, remoteStreams,
                   micDeviceAvailable, offersSent, redelivered, transportFails, revokes>>
    /\ HistUpdate(c, TRUE)
    /\ UNCHANGED chanVars
    /\ UNCHANGED deviceVars

\* grantAllPermissions, catch branch: const micSuccess = await enableMicrophone()
GrantAllMicrophone(t, r) ==
    /\ t.kind = "grantAll" /\ t.step = "mic"
    /\ EnableMicrophoneBody(t.owner, r, DelTask(tasks, t), <<"camera">>)
    /\ UNCHANGED <<phase, wsRef, members, inbox, participants, peersRef, remoteStreams,
                   offersSent>>
    /\ UNCHANGED budgetVars
    /\ HistUpdate(t.owner, FALSE)
    /\ UNCHANGED chanVars
    /\ UNCHANGED deviceVars

\* grantAllPermissions, catch branch: const cameraSuccess = await enableCamera()
GrantAllCamera(t, ok) ==
    /\ t.kind = "grantAll" /\ t.step = "camera"
    /\ EnableCameraBody(t.owner, ok, DelTask(tasks, t), TRUE)
    /\ UNCHANGED <<phase, wsRef, members, inbox, participants, peersRef, remoteStreams,
                   audioEnabled, micPermissionDenied, micDeviceAvailable, offersSent>>
    /\ UNCHANGED budgetVars
    /\ HistUpdate(t.owner, FALSE)
    /\ UNCHANGED chanVars
    /\ UNCHANGED deviceVars

\* refreshDeviceList: getUserMedia({audio: true}); on an error the devices are
\* enumerated (checkDeviceAvailability) before the error is classified
RefreshDeviceList(c, r, found) ==
    /\ phase[c] = "joined"
    /\ mediaOps < MaxMediaOps
    /\ mediaOps' = mediaOps + 1
    /\ r # "OverconstrainedError"
    /\ r = "ok" => found
    /\ LET new == NextTrack(c, "audio")
           old == OfKind(LocalTracks(c), "audio")
           pcs1 == RemoveSenders(pcs, c, old)
       IN  IF r = "ok"
           THEN /\ trackCount' = [trackCount EXCEPT ![c] = @ + 1]
                /\ stopped' = stopped \cup old
                /\ trackOff' = trackOff
                /\ localStreamRef' = [localStreamRef EXCEPT ![c] =
                                     [present |-> TRUE, tracks |-> LocalTracks(c) \cup {new}]]
                /\ audioEnabled' = [audioEnabled EXCEPT ![c] = TRUE]
                /\ micPermissionDenied' = [micPermissionDenied EXCEPT ![c] = FALSE]
                /\ micDeviceAvailable' = [micDeviceAvailable EXCEPT ![c] = "true"]
                /\ isRequestingPermissions' = [isRequestingPermissions EXCEPT ![c] = FALSE]
                /\ pcs' = AttachTrack(pcs1, c, new)
                /\ tasks' = tasks (+) SetToBag(ReplaceTasks(pcs1, c, new, "add"))
                                  (+) SetToBag(RenegTasks(c, TRUE))
           ELSE /\ micPermissionDenied' = [micPermissionDenied EXCEPT ![c] =
                                             IF r = "NotAllowedError" THEN TRUE ELSE @]
                /\ micDeviceAvailable' = [micDeviceAvailable EXCEPT ![c] =
                      IF r = "NotAllowedError" THEN (IF found THEN "true" ELSE "null")
                      ELSE IF r = "NotFoundError" THEN "false" ELSE "null"]
                /\ UNCHANGED <<localStreamRef, stopped, trackOff, trackCount, audioEnabled,
                               isRequestingPermissions, pcs, tasks>>
    /\ UNCHANGED <<phase, wsRef, members, inbox, participants, peersRef, remoteStreams,
                   videoEnabled, cameraPermissionDenied, offersSent,
                   redelivered, transportFails, revokes>>
    /\ HistUpdate(c, TRUE)
    /\ UNCHANGED chanVars
    /\ UNCHANGED deviceVars

\* retryPermissions up to "await startLocalStream()": every local track is
\* stopped and taken off the connections
RetryPermissions(c) ==
    /\ phase[c] = "joined"
    /\ mediaOps < MaxMediaOps
    /\ mediaOps' = mediaOps + 1
    /\ isRequestingPermissions' = [isRequestingPermissions EXCEPT ![c] = TRUE]
    /\ stopped' = stopped \cup LocalTracks(c)
    /\ trackOff' = trackOff
    /\ pcs' = RemoveSenders(pcs, c, LocalTracks(c))
    /\ micPermissionDenied' = [micPermissionDenied EXCEPT ![c] = FALSE]
    /\ cameraPermissionDenied' = [cameraPermissionDenied EXCEPT ![c] = FALSE]
    /\ tasks' = AddTask(tasks, Task(c, "retry", NoPeer, NoPc, "startLocalStream",
                                    NoDesc, <<>>))
    /\ UNCHANGED <<phase, wsRef, members, inbox, participants, peersRef, remoteStreams,
                   localStreamRef, trackCount, audioEnabled, videoEnabled,
                   micDeviceAvailable, offersSent, redelivered, transportFails, revokes>>
    /\ HistUpdate(c, TRUE)
    /\ UNCHANGED chanVars
    /\ UNCHANGED deviceVars

\* retryPermissions after startLocalStream: per connection and track, replace on
\* the sender of the same kind, or add the track and send an offer for it
RetryPermissionsDone(t, aok, vok) ==
    /\ t.kind = "retry"
    /\ StartLocalStream(t.owner, aok, vok)
    /\ LET c == t.owner
           a == Track(c, "audio", trackCount[c] + 1)
           v == Track(c, "video", trackCount[c] + 1)
           pcs1 == IF aok THEN AttachTrack(pcs, c, a) ELSE pcs
           ra == IF aok THEN ReplaceTasks(pcs, c, a, "log") ELSE {}
           rv == IF vok THEN ReplaceTasks(pcs1, c, v, "log") ELSE {}
           oa == IF aok THEN {RenegTask(c, i, FALSE) : i \in AddedTo(pcs, c, a)} ELSE {}
           ov == IF vok THEN {RenegTask(c, i, FALSE) : i \in AddedTo(pcs1, c, v)} ELSE {}
       IN  /\ pcs' = IF vok THEN AttachTrack(pcs1, c, v) ELSE pcs1
           /\ tasks' = DelTask(tasks, t) (+) SetToBag(ra) (+) SetToBag(rv)
                                         (+) SetToBag(oa) (+) SetToBag(ov)
    /\ UNCHANGED <<phase, wsRef, members, inbox, participants, peersRef, remoteStreams,
                   stopped, trackOff, micDeviceAvailable, offersSent>>
    /\ UNCHANGED budgetVars
    /\ HistUpdate(t.owner, FALSE)
    /\ UNCHANGED chanVars
    /\ UNCHANGED deviceVars

\* toggleAudio / toggleVideo with a track of the kind in the stream: every such
\* track gets enabled = !audioEnabled (!videoEnabled), the state is set to the
\* same value and the value is sent
ToggleExisting(c, k) ==
    LET on == IF k = "audio" THEN ~audioEnabled[c] ELSE ~videoEnabled[c]
        ts == OfKind(LocalTracks(c), k)
    IN  /\ trackOff' = IF on THEN trackOff \ ts ELSE trackOff \cup ts
        /\ audioEnabled' = [audioEnabled EXCEPT ![c] = IF k = "audio" THEN on ELSE @]
        /\ videoEnabled' = [videoEnabled EXCEPT ![c] = IF k = "video" THEN on ELSE @]
        /\ inbox' = IF wsRef[c] = "open" THEN ServerToggle(inbox, c, k, on) ELSE inbox
        /\ UNCHANGED <<phase, wsRef, members, participants, peersRef, pcs,
                       remoteStreams, tasks, offersSent, mediaHist>>
        /\ UNCHANGED <<localStreamRef, stopped, trackCount, micPermissionDenied,
                       cameraPermissionDenied, micDeviceAvailable,
                       isRequestingPermissions>>
        /\ UNCHANGED budgetVars
        /\ UNCHANGED chanVars
        /\ UNCHANGED deviceVars

\* toggleAudio: without a stream or without an audio track in it, enableMicrophone
ToggleAudio(c, r) ==
    IF OfKind(LocalTracks(c), "audio") # {}
    THEN phase[c] = "joined" /\ r = "ok" /\ ToggleExisting(c, "audio")
    ELSE EnableMicrophone(c, r)

\* toggleVideo: without a stream or without a video track in it, enableCamera
ToggleVideo(c, ok) ==
    IF OfKind(LocalTracks(c), "video") # {}
    THEN phase[c] = "joined" /\ ok /\ ToggleExisting(c, "video")
    ELSE EnableCamera(c, ok)

\* the browser ends a local track (permission revoked, device removed); the
\* component registers no listener on local tracks
RevokeTrack(c, k) ==
    /\ phase[c] = "joined"
    /\ revokes < MaxRevoke
    /\ revokes' = revokes + 1
    /\ OfKind(LiveLocalTracks(c), k) # {}
    /\ stopped' = stopped \cup OfKind(LiveLocalTracks(c), k)
    /\ trackOff' = trackOff
    /\ UNCHANGED <<phase, wsRef, members, inbox, participants, peersRef, pcs,
                   remoteStreams, tasks, localStreamRef, trackCount, audioEnabled,
                   videoEnabled, micPermissionDenied, cameraPermissionDenied,
                   micDeviceAvailable, isRequestingPermissions, offersSent,
                   redelivered, transportFails, mediaOps>>
    /\ HistUpdate(c, FALSE)
    /\ UNCHANGED chanVars
    /\ UNCHANGED deviceVars

----------------------------------------------------------------------------
\* Device requests step by step: the mount-time enumeration, and enableMicrophone
\* split at its getUserMedia calls

\* variant of CheckDeviceAvailability: an enumeration without audio inputs is
\* taken as "no device"
CheckDeviceAvailability_AbsentIsFalse(c, found) ==
    /\ deviceCheck[c] = "pending"
    /\ deviceCheck' = [deviceCheck EXCEPT ![c] = "done"]
    /\ micDeviceAvailable' = [micDeviceAvailable EXCEPT ![c] =
                                 IF found THEN "true" ELSE "false"]
    /\ UNCHANGED <<localStreamRef, stopped, trackOff, trackCount, audioEnabled, videoEnabled,
                   micPermissionDenied, cameraPermissionDenied, isRequestingPermissions>>
    /\ UNCHANGED <<sigVars, mediaHist, deviceCalls>>
    /\ UNCHANGED chanVars
    /\ UNCHANGED budgetVars

\* checkDeviceAvailability called by the mount effect: enumerateDevices resolves
\* with or without an audio input, or rejects (found = FALSE)
CheckDeviceAvailability(c, found) ==
    /\ deviceCheck[c] = "pending"
    /\ deviceCheck' = [deviceCheck EXCEPT ![c] = "done"]
    /\ micDeviceAvailable' = [micDeviceAvailable EXCEPT ![c] =
                                 IF found THEN "true" ELSE "null"]
    /\ UNCHANGED <<localStreamRef, stopped, trackOff, trackCount, audioEnabled, videoEnabled,
                   micPermissionDenied, cameraPermissionDenied, isRequestingPermissions>>
    /\ UNCHANGED <<sigVars, mediaHist, deviceCalls>>
    /\ UNCHANGED chanVars
    /\ UNCHANGED budgetVars

\* a getUserMedia call of enableMicrophone that has not settled: step "optimal"
\* (the full constraints) or "minimal" ({audio: true}); rest: the error of the
\* optimal request
MicRequest(c, step, err) == Task(c, "mic", NoPeer, NoPc, step, NoDesc, err)

\* enableMicrophone is called (its button, or toggleAudio without an audio
\* track): getUserMedia with the full constraints is awaited
EnableMicrophoneStart(c) ==
    /\ phase[c] = "joined"
    /\ deviceCalls < MaxDeviceCalls
    /\ deviceCalls' = deviceCalls + 1
    /\ tasks' = AddTask(tasks, MicRequest(c, "optimal", <<>>))
    /\ UNCHANGED <<phase, wsRef, members, inbox, participants, peersRef, pcs,
                   remoteStreams, offersSent, mediaHist, deviceCheck>>
    /\ UNCHANGED mediaVars
    /\ UNCHANGED chanVars
    /\ UNCHANGED budgetVars

\* the request with the full constraints settles; on any error getUserMedia
\* with {audio: true} is awaited
MicOptimalSettles(t, r) ==
    /\ t.kind = "mic" /\ t.step = "optimal"
    /\ IF r = "ok"
       THEN EnableMicrophoneBody(t.owner, r, DelTask(tasks, t), <<>>)
       ELSE /\ tasks' = AddTask(DelTask(tasks, t), MicRequest(t.owner, "minimal", <<r>>))
            /\ UNCHANGED pcs
            /\ UNCHANGED mediaVars
    /\ UNCHANGED <<phase, wsRef, members, inbox, participants, peersRef, remoteStreams,
                   offersSent>>
    /\ HistUpdate(t.owner, FALSE)
    /\ UNCHANGED chanVars
    /\ UNCHANGED deviceVars
    /\ UNCHANGED budgetVars

\* the request with {audio: true} settles; its error is rethrown to the outer
\* catch of enableMicrophone
MicMinimalSettles(t, r) ==
    /\ t.kind = "mic" /\ t.step = "minimal"
    /\ EnableMicrophoneBody(t.owner, r, DelTask(tasks, t), <<>>)
    /\ UNCHANGED <<phase, wsRef, members, inbox, participants, peersRef, remoteStreams,
                   offersSent>>
    /\ HistUpdate(t.owner, FALSE)
    /\ UNCHANGED chanVars
    /\ UNCHANGED deviceVars
    /\ UNCHANGED budgetVars

----------------------------------------------------------------------------
\* Continuations of the media operations on one connection

\* existingSender.replaceTrack(track) settles; it is queued on the connection
\* ahead of the createOffer that follows it
ReplaceSettle(t, ok) ==
    /\ t.kind = "replace" /\ t.step = "settle"
    /\ ~IsOpen(t.pc) => ~ok
    /\ pcs' = IF ok
              THEN [pcs EXCEPT ![t.pc].senders = (@ \ {t.old}) \cup {t.new}]
              ELSE pcs
    /\ tasks' = IF ~ok /\ t.rest = <<"add">>
                THEN AddTask(DelTask(tasks, t), [t EXCEPT !.step = "catch"])
                ELSE DelTask(tasks, t)
    /\ UNCHANGED <<phase, wsRef, members, inbox, participants, peersRef,
                   remoteStreams, offersSent, mediaHist>>
    /\ UNCHANGED chanVars
    /\ UNCHANGED deviceVars
    /\ UNCHANGED mediaVars
    /\ UNCHANGED budgetVars

\* .catch(() => peerConnection.addTrack(track, localStreamRef.current))
ReplaceCatch(t) ==
    /\ t.kind = "replace" /\ t.step = "catch"
    /\ pcs' = IF IsOpen(t.pc)
              THEN [pcs EXCEPT ![t.pc].senders = @ \cup {t.new}]
              ELSE pcs
    /\ tasks' = DelTask(tasks, t)
    /\ UNCHANGED <<phase, wsRef, members, inbox, participants, peersRef,
                   remoteStreams, offersSent, mediaHist>>
    /\ UNCHANGED chanVars
    /\ UNCHANGED deviceVars
    /\ UNCHANGED mediaVars
    /\ UNCHANGED budgetVars

\* createOffer() of a renegotiation resolves
RenegCreateOffer(t) ==
    /\ t.kind = "reneg" /\ t.step = "createOffer"
    /\ ~\E u \in Pending : u.kind = "replace" /\ u.step = "settle" /\ u.pc = t.pc
    /\ tasks' = IF IsOpen(t.pc)
                THEN AddTask(DelTask(tasks, t),
                             [t EXCEPT !.step = "setLocal", !.desc = Offer(t.owner, t.pc)])
                ELSE DelTask(tasks, t)
    /\ UNCHANGED <<phase, wsRef, members, inbox, participants, peersRef, pcs,
                   remoteStreams, offersSent, mediaHist>>
    /\ UNCHANGED chanVars
    /\ UNCHANGED deviceVars
    /\ UNCHANGED mediaVars
    /\ UNCHANGED budgetVars

\* variant of RenegSetLocal: an offer produced while the channel is not open
\* is kept and sent once the channel is open again
RenegSetLocal_Queued(t) ==
    /\ t.kind = "reneg" /\ t.step \in {"setLocal", "queued"}
    /\ t.step = "queued" => wsRef[t.owner] = "open"
    /\ LET ok == t.step = "queued" \/ pcs[t.pc].sig \in {"stable", "have-local-offer"} IN
        /\ pcs' = IF ok /\ t.step = "setLocal"
                  THEN [pcs EXCEPT ![t.pc].sig = "have-local-offer", ![t.pc].local = t.desc]
                  ELSE pcs
        /\ inbox' = IF ok THEN WsSend(inbox, t.owner, t.peer, "offer", t.desc) ELSE inbox
        /\ offersSent' = IF ok THEN CountOffer(offersSent, "reneg", t.owner, t.peer)
                         ELSE offersSent
        /\ tasks' = IF ok /\ wsRef[t.owner] # "open"
                    THEN AddTask(DelTask(tasks, t), [t EXCEPT !.step = "queued"])
                    ELSE DelTask(tasks, t)
    /\ UNCHANGED <<phase, wsRef, members, participants, peersRef, remoteStreams,
                   mediaHist>>
    /\ UNCHANGED chanVars
    /\ UNCHANGED deviceVars
    /\ UNCHANGED mediaVars
    /\ UNCHANGED budgetVars

\* .then(offer => setLocalDescription(offer)).then(() => send the offer)
RenegSetLocal(t) ==
    /\ t.kind = "reneg" /\ t.step = "setLocal"
    /\ LET ok == pcs[t.pc].sig \in {"stable", "have-local-offer"} IN
        /\ pcs' = IF ok
                  THEN [pcs EXCEPT ![t.pc].sig = "have-local-offer", ![t.pc].local = t.desc]
                  ELSE pcs
        /\ inbox' = IF ok THEN WsSend(inbox, t.owner, t.peer, "offer", t.desc) ELSE inbox
        /\ offersSent' = IF ok THEN CountOffer(offersSent, "reneg", t.owner, t.peer)
                         ELSE offersSent
    /\ tasks' = DelTask(tasks, t)
    /\ UNCHANGED <<phase, wsRef, members, participants, peersRef, remoteStreams,
                   mediaHist>>
    /\ UNCHANGED chanVars
    /\ UNCHANGED deviceVars
    /\ UNCHANGED mediaVars
    /\ UNCHANGED budgetVars

----------------------------------------------------------------------------
Init ==
    /\ phase = [c \in Clients |-> "idle"]
    /\ wsRef = [c \in Clients |-> "null"]
    /\ members = <<>>
    /\ inbox = [c \in Clients |-> <<>>]
    /\ participants = [c \in Clients |-> <<>>]
    /\ peersRef = [c \in Clients |-> [p \in Clients |-> NoPc]]
    /\ pcs = <<>>
    /\ remoteStreams = [c \in Clients |-> {}]
    /\ tasks = EmptyBag
    /\ localStreamRef = [c \in Clients |-> [present |-> FALSE, tracks |-> {}]]
    /\ stopped = {}
    /\ trackOff = {}
    /\ trackCount = [c \in Clients |-> 0]
    /\ audioEnabled = [c \in Clients |-> TRUE]
    /\ videoEnabled = [c \in Clients |-> TRUE]
    /\ micPermissionDenied = [c \in Clients |-> FALSE]
    /\ cameraPermissionDenied = [c \in Clients |-> FALSE]
    /\ micDeviceAvailable = [c \in Clients |-> "null"]
    /\ isRequestingPermissions = [c \in Clients |-> TRUE]
    /\ offersSent = [k \in OfferCauses \X Clients \X Clients |-> 0]
    /\ mediaHist = [c \in Clients |-> [audioFlips |-> 0, opsConnected |-> 0]]
    /\ initPc = [c \in Clients |-> "lookup"]
    /\ lookupResult = [c \in Clients |-> "pending"]
    /\ isConnected = [c \in Clients |-> FALSE]
    /\ sockets = [c \in Clients |-> <<>>]
    /\ wsSock = [c \in Clients |-> 0]
    /\ timers = [c \in Clients |-> <<>>]
    /\ toasts = [c \in Clients |-> {}]
    /\ onCloseCalled = [c \in Clients |-> FALSE]
    /\ failedAttempts = [c \in Clients |-> 0]
    /\ channelFails = 0
    /\ deviceCheck = [c \in Clients |-> "pending"]
    /\ deviceCalls = 0
    /\ redelivered = 0
    /\ transportFails = 0
    /\ mediaOps = 0
    /\ revokes = 0

\* Signaling: joins, leaves, message handlers, transport events.  The clients
\* join with both media kinds granted; their media does not change.
NextSig ==
    \/ \E c \in Clients : InitializeCall(c, TRUE, TRUE)
    \/ \E c \in Clients : LeaveCall(c)
    \/ \E c \in Clients : OnMessage(c)
    \/ \E t \in Pending : InitiatorCreateOffer(t)
    \/ \E t \in Pending : InitiatorSetLocal(t)
    \/ \E t \in Pending, rollback \in BOOLEAN : OfferSetRemote(t, rollback)
    \/ \E t \in Pending : OfferCreateAnswer(t)
    \/ \E t \in Pending : OfferSetLocal(t)
    \/ \E t \in Pending : AnswerSetRemote(t)
    \/ \E i \in PcIds : TransportConnected(i)
    \/ \E i \in PcIds : TransportFailed(i)
    \/ \E c \in Clients, p \in Clients : RedeliverUserJoined(c, p)

SpecSig == Init /\ [][NextSig]_vars

\* Media: the clients join and link; the media of the clients in MediaClients
\* changes, the other client joins as a listener and answers.  The user and the
\* devices act while signaling is at rest, not in the middle of a handler.
MediaClients == {"a"}

AcquisitionKinds == {"micFallback", "grantAll", "retry"}

\* no message in flight and no handler suspended; device requests may be pending
SignalingAtRest ==
    /\ \A c \in Clients : inbox[c] = <<>>
    /\ \A t \in Pending : t.kind \in AcquisitionKinds

AtRest == tasks = EmptyBag /\ SignalingAtRest

NextMedia ==
    \/ \E c \in Clients, aok \in BOOLEAN, vok \in BOOLEAN :
          /\ c \notin MediaClients => (~aok /\ ~vok)
          /\ InitializeCall(c, aok, vok)
    \/ \E c \in Clients : OnMessage(c)
    \/ \E t \in Pending : InitiatorCreateOffer(t)
    \/ \E t \in Pending : InitiatorSetLocal(t)
    \/ \E t \in Pending, rollback \in BOOLEAN : OfferSetRemote(t, rollback)
    \/ \E t \in Pending : OfferCreateAnswer(t)
    \/ \E t \in Pending : OfferSetLocal(t)
    \/ \E t \in Pending : AnswerSetRemote(t)
    \/ \E i \in PcIds : TransportConnected(i)
    \/ \E c \in MediaClients, r \in MicResults : AtRest /\ EnableMicrophone(c, r)
    \/ \E t \in Pending, ok \in BOOLEAN : SignalingAtRest /\ MicFallback(t, ok)
    \/ \E c \in MediaClients, ok \in BOOLEAN : AtRest /\ EnableCamera(c, ok)
    \/ \E c \in MediaClients, ok \in BOOLEAN : AtRest /\ GrantAllPermissions(c, ok)
    \/ \E t \in Pending, r \in MicResults : SignalingAtRest /\ GrantAllMicrophone(t, r)
    \/ \E t \in Pending, ok \in BOOLEAN : SignalingAtRest /\ GrantAllCamera(t, ok)
    \/ \E c \in MediaClients, r \in MicResults, found \in BOOLEAN :
          AtRest /\ RefreshDeviceList(c, r, found)
    \/ \E c \in MediaClients : AtRest /\ RetryPermissions(c)
    \/ \E t \in Pending, aok \in BOOLEAN, vok \in BOOLEAN :
          SignalingAtRest /\ RetryPermissionsDone(t, aok, vok)
    \/ \E c \in MediaClients, k \in Kinds : AtRest /\ RevokeTrack(c, k)
    \/ \E t \in Pending, ok \in BOOLEAN : ReplaceSettle(t, ok)
    \/ \E t \in Pending : ReplaceCatch(t)
    \/ \E t \in Pending : RenegCreateOffer(t)
    \/ \E t \in Pending : RenegSetLocal(t)

SpecMedia == Init /\ [][NextMedia]_vars

\* Channel: one client sets the call up step by step, its channel opens, fails,
\* times out and is reconnected by the timers, and the call is left at any
\* point.  Nobody else is in the room.
ChannelClients == {"a"}

NextChannel ==
    \/ \E c \in ChannelClients, r \in LookupResults : InitLookup(c, r)
    \/ \E c \in ChannelClients, aok \in BOOLEAN, vok \in BOOLEAN : InitMedia(c, aok, vok)
    \/ \E c \in ChannelClients : \E i \in SocketIds(c) : WsOpen(c, i)
    \/ \E c \in ChannelClients : \E i \in SocketIds(c), why \in FailureKinds : WsFail(c, i, why)
    \/ \E c \in ChannelClients : \E i \in SocketIds(c) : WsTimeout(c, i)
    \/ \E c \in ChannelClients : \E i \in SocketIds(c) : WsClosed(c, i)
    \/ \E c \in ChannelClients : TimerFire(c)
    \/ \E c \in ChannelClients : OnMessage(c)
    \/ \E c \in ChannelClients : LeaveCall(c)
    \/ \E c \in ChannelClients : Unmount(c)

SpecChannel == Init /\ [][NextChannel]_vars

\* Closing: the channel events of NextChannel, and the server may close an
\* admitted socket normally.
NextClose ==
    \/ \E c \in ChannelClients, r \in LookupResults : InitLookup(c, r)
    \/ \E c \in ChannelClients, aok \in BOOLEAN, vok \in BOOLEAN : InitMedia(c, aok, vok)
    \/ \E c \in ChannelClients : \E i \in SocketIds(c) : WsOpen(c, i)
    \/ \E c \in ChannelClients : \E i \in SocketIds(c), why \in FailureKinds : WsFail(c, i, why)
    \/ \E c \in ChannelClients : \E i \in SocketIds(c) : WsTimeout(c, i)
    \/ \E c \in ChannelClients : \E i \in SocketIds(c) : WsClosed(c, i)
    \/ \E c \in ChannelClients : \E i \in SocketIds(c) : WsServerClose(c, i)
    \/ \E c \in ChannelClients : TimerFire(c)
    \/ \E c \in ChannelClients : OnMessage(c)
    \/ \E c \in ChannelClients : LeaveCall(c)
    \/ \E c \in ChannelClients : Unmount(c)

SpecClose == Init /\ [][NextClose]_vars

\* Devices: one client alone in the room; the enumeration of the mount effect
\* resolves, enableMicrophone is called (possibly again before the previous call
\* has ended) and runs request by request, the device list is refreshed.
NextDevice ==
    \/ \E c \in MediaClients, aok \in BOOLEAN, vok \in BOOLEAN : InitializeCall(c, aok, vok)
    \/ \E c \in MediaClients : OnMessage(c)
    \/ \E c \in MediaClients, found \in BOOLEAN : CheckDeviceAvailability(c, found)
    \/ \E c \in MediaClients : EnableMicrophoneStart(c)
    \/ \E t \in Pending, r \in MicResults : MicOptimalSettles(t, r)
    \/ \E t \in Pending, r \in MicResults : MicMinimalSettles(t, r)
    \/ \E t \in Pending, ok \in BOOLEAN : MicFallback(t, ok)
    \/ \E c \in MediaClients, r \in MicResults, found \in BOOLEAN :
          RefreshDeviceList(c, r, found)

SpecDevice == Init /\ [][NextDevice]_vars

\* Reconnection: both clients join and exchange descriptions while the open
\* channel of the clients in ChannelClients is lost and is re-established by the
\* reconnect timer.
NextReconnect ==
    \/ \E c \in Clients : InitializeCall(c, TRUE, TRUE)
    \/ \E c \in Clients : OnMessage(c)
    \/ \E t \in Pending : InitiatorCreateOffer(t)
    \/ \E t \in Pending : InitiatorSetLocal(t)
    \/ \E t \in Pending, rollback \in BOOLEAN : OfferSetRemote(t, rollback)
    \/ \E t \in Pending : OfferCreateAnswer(t)
    \/ \E t \in Pending : OfferSetLocal(t)
    \/ \E t \in Pending : AnswerSetRemote(t)
    \/ \E c \in ChannelClients : \E i \in SocketIds(c) :
          sockets[c][i].state = "open" /\ WsFail(c, i, "network")
    \/ \E c \in ChannelClients : TimerFire(c)
    \/ \E c \in ChannelClients : \E i \in SocketIds(c) : WsOpen(c, i)

SpecReconnect == Init /\ [][NextReconnect]_vars

\* Addressing: both clients join and link, their connections hand out
\* candidates, and the camera of the clients in MediaClients is enabled while
\* signaling is at rest, which renegotiates.
NextIce ==
    \/ \E c \in Clients : InitializeCall(c, TRUE, TRUE)
    \/ \E c \in Clients : OnMessage(c)
    \/ \E t \in Pending : InitiatorCreateOffer(t)
    \/ \E t \in Pending : InitiatorSetLocal(t)
    \/ \E t \in Pending, rollback \in BOOLEAN : OfferSetRemote(t, rollback)
    \/ \E t \in Pending : OfferCreateAnswer(t)
    \/ \E t \in Pending : OfferSetLocal(t)
    \/ \E t \in Pending : AnswerSetRemote(t)
    \/ \E i \in PcIds : IceCandidate(i)
    \/ \E t \in Pending : IceAdd(t)
    \/ \E c \in MediaClients, ok \in BOOLEAN : AtRest /\ EnableCamera(c, ok)
    \/ \E t \in Pending, ok \in BOOLEAN : ReplaceSettle(t, ok)
    \/ \E t \in Pending : RenegCreateOffer(t)
    \/ \E t \in Pending : RenegSetLocal(t)

SpecIce == Init /\ [][NextIce]_vars

\* Outbound: candidates and renegotiation offers of a client whose first
\* signaling channel is lost, while signaling is at rest, and reopened by the
\* reconnect timer.
NextOutbound ==
    \/ \E c \in Clients : InitializeCall(c, TRUE, TRUE)
    \/ \E c \in Clients : OnMessage(c)
    \/ \E t \in Pending : InitiatorCreateOffer(t)
    \/ \E t \in Pending : InitiatorSetLocal(t)
    \/ \E t \in Pending, rollback \in BOOLEAN : OfferSetRemote(t, rollback)
    \/ \E t \in Pending : OfferCreateAnswer(t)
    \/ \E t \in Pending : OfferSetLocal(t)
    \/ \E t \in Pending : AnswerSetRemote(t)
    \/ \E i \in PcIds :
          AtRest /\ pcs[i].owner \in ChannelClients /\ IceCandidate(i)
    \/ \E t \in Pending : IceAdd(t)
    \/ \E c \in ChannelClients : \E i \in SocketIds(c) :
          /\ AtRest /\ i = 1 /\ sockets[c][i].state = "open"
          /\ WsFail(c, i, "network")
    \/ \E c \in ChannelClients : TimerFire(c)
    \/ \E c \in ChannelClients : \E i \in SocketIds(c) : WsOpen(c, i)
    \/ \E c \in MediaClients, ok \in BOOLEAN : AtRest /\ EnableCamera(c, ok)
    \/ \E t \in Pending, ok \in BOOLEAN : ReplaceSettle(t, ok)
    \/ \E t \in Pending : RenegCreateOffer(t)
    \/ \E t \in Pending : RenegSetLocal(t)

SpecOutbound == Init /\ [][NextOutbound]_vars

\* Toggles: the mute buttons and "retry permissions" while signaling is at rest.
NextToggle ==
    \/ \E c \in Clients, aok \in BOOLEAN, vok \in BOOLEAN :
          /\ c \notin MediaClients => (~aok /\ ~vok)
          /\ InitializeCall(c, aok, vok)
    \/ \E c \in Clients : OnMessage(c)
    \/ \E t \in Pending : InitiatorCreateOffer(t)
    \/ \E t \in Pending : InitiatorSetLocal(t)
    \/ \E t \in Pending, rollback \in BOOLEAN : OfferSetRemote(t, rollback)
    \/ \E t \in Pending : OfferCreateAnswer(t)
    \/ \E t \in Pending : OfferSetLocal(t)
    \/ \E t \in Pending : AnswerSetRemote(t)
    \/ \E c \in MediaClients, r \in MicResults : AtRest /\ ToggleAudio(c, r)
    \/ \E c \in MediaClients, ok \in BOOLEAN : AtRest /\ ToggleVideo(c, ok)
    \/ \E t \in Pending, ok \in BOOLEAN : SignalingAtRest /\ MicFallback(t, ok)
    \/ \E c \in MediaClients : AtRest /\ RetryPermissions(c)
    \/ \E t \in Pending, aok \in BOOLEAN, vok \in BOOLEAN :
          SignalingAtRest /\ RetryPermissionsDone(t, aok, vok)
    \/ \E t \in Pending, ok \in BOOLEAN : ReplaceSettle(t, ok)
    \/ \E t \in Pending : RenegCreateOffer(t)
    \/ \E t \in Pending : RenegSetLocal(t)

SpecToggle == Init /\ [][NextToggle]_vars

\* Orphans: descriptions and candidates that arrive for a connection that has
\* failed meanwhile.
NextOrphan ==
    \/ \E c \in Clients : InitializeCall(c, TRUE, TRUE)
    \/ \E c \in Clients : OnMessage(c)
    \/ \E t \in Pending : InitiatorCreateOffer(t)
    \/ \E t \in Pending : InitiatorSetLocal(t)
    \/ \E t \in Pending, rollback \in BOOLEAN : OfferSetRemote(t, rollback)
    \/ \E t \in Pending : OfferCreateAnswer(t)
    \/ \E t \in Pending : OfferSetLocal(t)
    \/ \E t \in Pending : AnswerSetRemote(t)
    \/ \E i \in PcIds : IceCandidate(i)
    \/ \E t \in Pending : IceAdd(t)
    \/ \E i \in PcIds : TransportFailed(i)

SpecOrphan == Init /\ [][NextOrphan]_vars

\* Inbound: what the handlers do with the messages of a channel that does not
\* filter by addressee.
NextInbound ==
    \/ \E c \in Clients : InitializeCall(c, TRUE, TRUE)
    \/ \E c \in Clients : OnMessage(c)
    \/ \E t \in Pending : InitiatorCreateOffer(t)
    \/ \E t \in Pending : InitiatorSetLocal(t)
    \/ \E t \in Pending, rollback \in BOOLEAN : OfferSetRemote(t, rollback)
    \/ \E t \in Pending : OfferCreateAnswer(t)
    \/ \E t \in Pending : OfferSetLocal(t)
    \/ \E t \in Pending : AnswerSetRemote(t)
    \/ \E t \in Pending : IceAdd(t)
    \/ \E c \in Clients, type \in {"offer", "answer", "ice_candidate"}, i \in PcIds :
          StrayRelay(c, type, i)
    \/ \E c \in Clients, type \in {"room_info", "user_joined"} : DeliverSelf(c, type)

SpecInbound == Init /\ [][NextInbound]_vars

----------------------------------------------------------------------------
\* Properties

InitialOffers(c, p) ==
    offersSent[<<"room_info", c, p>>] + offersSent[<<"user_joined", c, p>>]

RenegOffers(c, p) == offersSent[<<"reneg", c, p>>]

Position(c) == CHOOSE k \in 1..Len(members) : members[k] = c

BothMembers(c, p) == c \in Range(members) /\ p \in Range(members)

Undisturbed == transportFails = 0 /\ redelivered = 0

\* no message, no suspended handler, and no transport event left to happen
Settled ==
    /\ AtRest
    /\ \A i \in PcIds : ~ENABLED TransportConnected(i)

\* C1: for every pair of participants in the room exactly one of the two sends
\* the initial offer toward the other: never both, never neither once the join
\* has been handled, and the sender is the one that was in the room first.
C1_GlareFree ==
    \A pr \in Pairs :
        (BothMembers(pr[1], pr[2]) /\ Undisturbed) =>
            /\ ~(InitialOffers(pr[1], pr[2]) > 0 /\ InitialOffers(pr[2], pr[1]) > 0)
            /\ Settled => (InitialOffers(pr[1], pr[2]) > 0 \/ InitialOffers(pr[2], pr[1]) > 0)
            /\ InitialOffers(pr[1], pr[2]) > 0 => Position(pr[1]) < Position(pr[2])

\* C2: a client that handles room_info sends no offer to the participants of
\* the snapshot; initial offers come from the user_joined handler only.
C2_NewMemberNeverInitiates ==
    \A pr \in Pairs : offersSent[<<"room_info", pr[1], pr[2]>>] = 0

\* the participants a message lets the client discover
Discovered(m) ==
    IF m.type = "room_info" THEN Range(m.body)
    ELSE IF m.type = "user_joined" THEN {m.body}
    ELSE {}

NewTasks == {t \in BagToSet(tasks') : CopiesIn(t, tasks') > CopiesIn(t, tasks)}

\* C3: handling user_joined or room_info for a participant that already has a
\* connection in the map leaves that entry and its connection object as they
\* are, creates no connection object for it and starts no offer toward it (a
\* user_joined for a linked participant changes nothing but the participants
\* list); a connection object is only ever created for a participant that has
\* no entry.
C3_DiscoveryIdempotent ==
    [][/\ \A c \in Clients :
            (inbox[c] # <<>> /\ inbox'[c] = Tail(inbox[c]) /\ phase' = phase) =>
                /\ \A p \in Discovered(Head(inbox[c])) :
                      peersRef[c][p] # NoPc =>
                         /\ peersRef'[c][p] = peersRef[c][p]
                         /\ pcs'[peersRef[c][p]] = pcs[peersRef[c][p]]
                         /\ ~\E t \in NewTasks : t.owner = c /\ t.peer = p
                         /\ \A k \in OfferCauses :
                               offersSent'[<<k, c, p>>] = offersSent[<<k, c, p>>]
                /\ (Head(inbox[c]).type = "user_joined"
                      /\ peersRef[c][Head(inbox[c]).body] # NoPc) =>
                         /\ peersRef' = peersRef /\ pcs' = pcs /\ tasks' = tasks
                         /\ [x \in Clients |-> IF x = c THEN <<>> ELSE inbox'[x]]
                              = [x \in Clients |-> IF x = c THEN <<>> ELSE inbox[x]]
       /\ \A i \in (Len(pcs) + 1)..Len(pcs') :
            peersRef[pcs'[i].owner][pcs'[i].peer] = NoPc
      ]_vars

Occurrences(list, x) == Cardinality({k \in 1..Len(list) : list[k] = x})

\* C3 witness: a second user_joined for a linked participant has been handled
\* and there is still one connection object for it
C3_Witness ==
    \E pr \in Pairs :
        /\ Occurrences(participants[pr[1]], pr[2]) >= 2
        /\ inbox[pr[1]] = <<>>
        /\ peersRef[pr[1]][pr[2]] # NoPc
        /\ Cardinality({i \in PcIds : pcs[i].owner = pr[1] /\ pcs[i].peer = pr[2]}) = 1

OpenPcs(c, p) == {i \in PcIds : pcs[i].owner = c /\ pcs[i].peer = p /\ IsOpen(i)}

\* C4: at every reachable state a client has at most one un-closed connection
\* object per remote participant, and it is the one in the peers map.
C4_OnePeerLinkPerParticipant ==
    \A c \in Clients, p \in Clients :
        /\ Cardinality(OpenPcs(c, p)) <= 1
        /\ phase[c] = "joined" => OpenPcs(c, p) \subseteq {peersRef[c][p]}

\* C4 witness: a closed connection object for a participant and a newer open
\* one for the same participant
C4_Witness ==
    \E i \in PcIds, j \in PcIds :
        /\ i < j
        /\ pcs[i].owner = pcs[j].owner /\ pcs[i].peer = pcs[j].peer
        /\ ~IsOpen(i) /\ IsOpen(j)
        /\ peersRef[pcs[j].owner][pcs[j].peer] = j

HasDescriptions(i) == pcs[i].local # NoDesc /\ pcs[i].remote # NoDesc

\* C5: with both clients in the room and every message delivered and handled,
\* each has a link to the other with a local and a remote description applied,
\* and the link is connected.
C5_JoinCompletes ==
    (Settled /\ Undisturbed /\ \A c \in Clients : phase[c] = "joined") =>
        \A pr \in Pairs :
            /\ HasPeer(pr[1], pr[2])
            /\ HasDescriptions(peersRef[pr[1]][pr[2]])
            /\ pcs[peersRef[pr[1]][pr[2]]].conn = "connected"

TracksEver(c) == {t \in LocalTracks(c) \cup stopped : t.owner = c}

\* C6: when the audio track of a client connected to a peer was revoked and
\* then granted again (two changes of the track set, audio only), the client
\* has sent exactly two renegotiation offers to the peer and the peer none to
\* the client.
C6_TwoRenegotiationOffers ==
    \A pr \in Pairs :
        (/\ AtRest /\ HasPeer(pr[1], pr[2]) /\ wsRef[pr[1]] = "open"
         /\ pcs[peersRef[pr[1]][pr[2]]].conn = "connected"
         /\ revokes = 1 /\ mediaOps = 1 /\ mediaHist[pr[1]].opsConnected = 1
         /\ mediaHist[pr[1]].audioFlips = 2 /\ HasLiveAudio(pr[1])
         /\ OfKind(TracksEver(pr[1]), "video") = {}
         /\ TracksEver(pr[2]) = {}) =>
            /\ RenegOffers(pr[1], pr[2]) = 2
            /\ RenegOffers(pr[2], pr[1]) = 0

\* C7: once a media operation started on connected links has run to its end,
\* the outbound tracks of every link are the current local tracks.
C7_TracksConverge ==
    \A pr \in Pairs :
        (/\ AtRest /\ HasPeer(pr[1], pr[2]) /\ revokes = 0
         /\ mediaOps > 0 /\ mediaHist[pr[1]].opsConnected = mediaOps) =>
            pcs[peersRef[pr[1]][pr[2]]].senders = LiveLocalTracks(pr[1])

\* C8: a step that replaces a track in place on a sender of a connection
\* starts no renegotiation offer on that connection.
C8_ReplaceWithoutOffer ==
    [][\A r \in NewTasks : r.kind = "replace" =>
          ~\E o \in NewTasks : o.kind = "reneg" /\ o.pc = r.pc]_vars

\* C9: a renegotiation offer is generated only after the changed track is on
\* the connection: no generated offer lacks a track that a pending rejection
\* handler is still to add.
C9_OfferAfterAttach ==
    \A t \in Pending, u \in Pending :
        (/\ t.kind = "reneg" /\ t.step = "setLocal"
         /\ u.kind = "replace" /\ u.pc = t.pc) =>
            u.new \in t.desc.tracks

\* C10: the local stream holds at most one audio and one video track, and so
\* does every connection.
C10_OneTrackPerKind ==
    \A k \in Kinds :
        /\ \A c \in Clients : Cardinality(OfKind(LocalTracks(c), k)) <= 1
        /\ \A i \in PcIds : Cardinality(OfKind(pcs[i].senders, k)) <= 1

\* the connection objects a step changes
ChangedPcs == {j \in PcIds : pcs'[j] # pcs[j]}

\* a step in which a transport reports failed or disconnected
IsTransportFailure == transportFails' # transportFails

\* C11: when the transport of a link fails, the connection object is closed and
\* taken out of the peers map and the peer's remote stream is removed, while the
\* participants list stays as it is.
C11_FailureKeepsParticipant ==
    [][IsTransportFailure =>
          /\ participants' = participants
          /\ \E i \in PcIds :
                /\ IsOpen(i) /\ pcs'[i].sig = "closed"
                /\ peersRef[pcs[i].owner][pcs[i].peer] = i
                /\ peersRef'[pcs[i].owner][pcs[i].peer] = NoPc
                /\ pcs[i].peer \notin remoteStreams'[pcs[i].owner]
      ]_vars

ClosedPcs(c, p) ==
    {i \in PcIds : pcs[i].owner = c /\ pcs[i].peer = p /\ ~IsOpen(i)}

\* C11 witness: the link to a peer failed and is gone, the peer is still in the
\* room and still listed
C11_Witness ==
    \E pr \in Pairs :
        /\ transportFails > 0 /\ ClosedPcs(pr[1], pr[2]) # {}
        /\ peersRef[pr[1]][pr[2]] = NoPc
        /\ phase[pr[1]] = "joined"
        /\ pr[2] \in Range(members)
        /\ pr[2] \in Range(participants[pr[1]])

DoneTasks == {t \in BagToSet(tasks) : CopiesIn(t, tasks') < CopiesIn(t, tasks)}

Handles(c) == inbox[c] # <<>> /\ inbox'[c] = Tail(inbox[c]) /\ phase' = phase

LiveSockets(c) == {i \in SocketIds(c) : Live(sockets[c][i])}

\* C14: once cleanup has run, the client has no connecting or open signaling
\* channel, whatever timer or pending step of initializeCall runs afterwards.
C14_NoChannelAfterLeave ==
    \A c \in Clients : phase[c] = "left" => LiveSockets(c) = {}

\* C15: once cleanup has run, the peers map is empty, the client has no open
\* connection object, and every local track is stopped.
C15_NothingAfterLeave ==
    \A c \in Clients :
        phase[c] = "left" =>
            /\ \A p \in Clients : peersRef[c][p] = NoPc
            /\ \A i \in PcIds : pcs[i].owner = c => ~IsOpen(i)
            /\ LiveLocalTracks(c) = {}

\* C16: a client never has two signaling channels that are connecting or open.
C16_OneLiveChannel ==
    \A c \in Clients : Cardinality(LiveSockets(c)) <= 1

\* C16 witness: the first channel failed, the retry timer of initializeCall has
\* opened the next one, and the reconnect timer set by the failure is still to
\* fire
C16_Witness ==
    \E c \in Clients :
        /\ Len(sockets[c]) >= 2
        /\ sockets[c][1].state = "closed"
        /\ sockets[c][Len(sockets[c])].awaited = "retry"
        /\ Live(sockets[c][Len(sockets[c])])
        /\ "reconnect" \in Range(timers[c])

AttemptPending(c) == timers[c] # <<>> \/ LiveSockets(c) # {}

\* C17: the reconnection attempts that fail in a row are bounded by a ceiling:
\* a client whose attempts have failed as often as the channel can fail here has
\* no further attempt pending and has reported the failure.
C17_RetryCeiling ==
    \A c \in Clients :
        failedAttempts[c] >= MaxChannelFail - 1 =>
            /\ ~AttemptPending(c)
            /\ "Unable to connect" \in toasts[c]

\* C18: when the room lookup answers 404 or 403, the setup is aborted: the error
\* is shown, onClose was called, no media was requested and no signaling channel
\* was created.
C18_LookupFailureAborts ==
    \A c \in Clients :
        lookupResult[c] \in {"404", "403"} =>
            /\ initPc[c] = "aborted"
            /\ onCloseCalled[c]
            /\ toasts[c] = {IF lookupResult[c] = "404" THEN "Meeting not found"
                            ELSE "You do not have permission to join this meeting"}
            /\ trackCount[c] = 0 /\ ~localStreamRef[c].present
            /\ sockets[c] = <<>> /\ timers[c] = <<>>

\* C18 witness: the lookup was refused with 403 and the call was given up
C18_Witness ==
    \E c \in Clients :
        /\ lookupResult[c] = "403" /\ initPc[c] = "aborted" /\ onCloseCalled[c]

\* C19: when the server refuses the channel, the client schedules no further
\* connection attempt: the refused socket is its last one and no timer is set.
C19_RejectionIsFatal ==
    \A c \in Clients : \A i \in SocketIds(c) :
        sockets[c][i].why = "rejected" =>
            /\ i = Len(sockets[c])
            /\ timers[c] = <<>>

StreamKinds(stream) == IF stream.present THEN {t.kind : t \in stream.tracks} ELSE {}

\* C20: startLocalStream leaves a local stream with exactly the kinds whose
\* request succeeded, each a fresh live track: a failed audio request does not
\* keep the video track out, a failed video request does not drop the audio
\* track.
C20_AcquisitionIndependent ==
    [][\A c \in Clients, aok \in BOOLEAN, vok \in BOOLEAN :
          InitMedia(c, aok, vok) =>
             /\ StreamKinds(localStreamRef'[c]) =
                   (IF aok THEN {"audio"} ELSE {}) \cup (IF vok THEN {"video"} ELSE {})
             /\ localStreamRef'[c].tracks \cap (stopped' \cup localStreamRef[c].tracks) = {}
             /\ localStreamRef'[c].present = (aok \/ vok)
      ]_vars

\* C20 witness: the audio request failed and the stream holds a live video track
C20_Witness ==
    \E c \in Clients :
        /\ initPc[c] \in {"connect", "done"}
        /\ micPermissionDenied[c] /\ ~cameraPermissionDenied[c]
        /\ StreamKinds(localStreamRef[c]) = {"video"}
        /\ LiveLocalTracks(c) # {}

\* both requests of startLocalStream failed and no track was obtained since
IsListener(c) ==
    /\ phase[c] = "joined"
    /\ trackCount[c] = 0 /\ micPermissionDenied[c] /\ cameraPermissionDenied[c]

\* C21: a client that joined without any media has its channel open and, once
\* every message is handled, a link without outbound tracks to the other
\* participant on which an offer/answer exchange was completed.
C21_ListenerMode ==
    \A pr \in Pairs :
        (Settled /\ IsListener(pr[1]) /\ phase[pr[2]] = "joined") =>
            /\ wsRef[pr[1]] = "open"
            /\ HasPeer(pr[1], pr[2])
            /\ pcs[peersRef[pr[1]][pr[2]]].senders = {}
            /\ HasDescriptions(peersRef[pr[1]][pr[2]])

\* the calls of getUserMedia({audio: true}) that enableMicrophone has pending
RelaxedRequests(ts) ==
    {t \in ts : \/ t.kind = "mic" /\ t.step = "minimal"
                \/ t.kind = "micFallback"}

\* C22: a call of enableMicrophone whose request with the full constraints
\* failed with NotFoundError makes one request with {audio: true}: the step
\* that ends the optimal request starts it, and the step that ends it starts no
\* further one.
C22_OneRelaxedAttempt ==
    [][\A t \in DoneTasks :
          /\ (t.kind = "mic" /\ t.step = "optimal" /\ trackCount' = trackCount) =>
                \E u \in RelaxedRequests(NewTasks) : u.owner = t.owner
          /\ (t.kind = "mic" /\ t.step = "minimal" /\ t.rest = <<"NotFoundError">>) =>
                RelaxedRequests(NewTasks) = {}
      ]_vars

\* a step that ends a failed getUserMedia({audio: true}) of the client: the
\* further request of enableMicrophone settles without a track, or
\* refreshDeviceList runs into its catch
RelaxedAttemptFailed(c) ==
    /\ trackCount'[c] = trackCount[c]
    /\ \/ \E t \in DoneTasks : t.kind = "micFallback" /\ t.owner = c
       \/ mediaOps' = mediaOps + 1

\* C23: micDeviceAvailable becomes "false" only in a step that ends a failed
\* acquisition with relaxed constraints; the enumeration of checkDeviceAvailability
\* leaves it "true" or "null".
C23_AbsentOnlyAfterAttempt ==
    [][\A c \in Clients :
          /\ (micDeviceAvailable'[c] = "false" /\ micDeviceAvailable[c] # "false") =>
                RelaxedAttemptFailed(c)
          /\ deviceCheck'[c] # deviceCheck[c] => micDeviceAvailable'[c] \in {"true", "null"}
      ]_vars

\* C23 witness: the enumeration has resolved, and a failed request with
\* {audio: true} has then set the flag to "false"
C23_Witness ==
    \E c \in Clients :
        /\ deviceCheck[c] = "done" /\ micDeviceAvailable[c] = "false"
        /\ micPermissionDenied[c]

\* the getUserMedia calls for audio of a client that have not settled
MicRequestsInFlight(c) ==
    LET S == {t \in Pending : t.owner = c /\ t.kind \in {"mic", "micFallback"}}
    IN  BagCardinality([t \in S |-> CopiesIn(t, tasks)])

\* C24: a client has at most one audio device request in flight.
C24_OneRequestInFlight ==
    \A c \in Clients : MicRequestsInFlight(c) <= 1

\* the message handlers of a client that are suspended at an await
SuspendedHandlers(c) ==
    {t \in Pending : t.owner = c /\ t.kind \in {"room_info", "user_joined", "offer", "answer"}}

\* C25: onmessage starts the handler of a message only when no handler of an
\* earlier message of the same client is still suspended.
C25_HandlersInSequence ==
    [][\A c \in Clients : Handles(c) => SuspendedHandlers(c) = {}]_vars

\* C26: a description is applied as remote description only while its author
\* is still on the signaling channel it created the description under.
C26_StaleDescriptionDiscarded ==
    [][\A i \in PcIds :
          (pcs'[i].remote # pcs[i].remote /\ pcs'[i].remote # NoDesc) =>
              pcs'[i].remote.chan = wsSock[pcs'[i].remote.from]
      ]_vars

\* the messages a step puts on the way to a client
SentTo(x) == {inbox'[x][k] : k \in (Len(inbox[x]) + 1)..Len(inbox'[x])}

\* C27: an offer, answer or candidate a client sends names one other
\* participant in `to`, the key under which the peers map holds the connection
\* that produced it; the description sent is the local description of that
\* connection, and an answer goes to the author of the offer applied on it.
C27_AddressedToPeer ==
    [][\A x \in Clients : \A m \in SentTo(x) :
          m.type \in {"offer", "answer", "ice_candidate"} =>
              /\ m.to = x /\ m.to # m.from /\ m.body.from = m.from
              /\ HasPeer(m.from, m.to)
              /\ LET i == peersRef[m.from][m.to] IN
                    /\ pcs[i].owner = m.from /\ pcs[i].peer = m.to
                    /\ m.type \in {"offer", "answer"} =>
                          (pcs'[i].local = m.body /\ m.body.type = m.type)
                    /\ m.type = "answer" =>
                          (pcs'[i].remote.type = "offer" /\ pcs'[i].remote.from = m.to)
                    /\ m.type = "ice_candidate" => pcs'[i].ice = pcs[i].ice + 1
      ]_vars

\* C27 witness: a connection that answered an offer has also sent a candidate,
\* and a renegotiation offer has been sent
C27_Witness ==
    /\ \E i \in PcIds :
          /\ pcs[i].ice > 0 /\ pcs[i].local.type = "answer"
          /\ wsRef[pcs[i].owner] = "open"
    /\ \E pr \in Pairs : RenegOffers(pr[1], pr[2]) > 0

\* the answers a step sends from c to p
AnswersSent(c, p) == {m \in SentTo(p) : m.type = "answer" /\ m.from = c}

C29_NoDuplicateParticipants ==
    \A c \in Clients : \A p \in Clients : Occurrences(participants[c], p) <= 1

\* C30: membership convergence.  Once a client in the room has handled every
\* room_info, user_joined and user_left delivered to it, the ids on its
\* participants list are exactly the other members of the room (the snapshot
\* and the broadcasts never name the receiver itself).
MembershipTypes == {"room_info", "user_joined", "user_left"}

MembershipPending(c) ==
    {k \in 1..Len(inbox[c]) : inbox[c][k].type \in MembershipTypes}

C30_MembershipConverges ==
    \A c \in Clients :
        (c \in Range(members) /\ MembershipPending(c) = {}) =>
            Range(participants[c]) = Range(members) \ {c}

\* C30 witness: a client has handled the join and the leave of another one and
\* is back to an empty list, alone in the room
C30_Witness ==
    \E pr \in Pairs :
        /\ pr[1] \in Range(members) /\ pr[2] \notin Range(members)
        /\ MembershipPending(pr[1]) = {}
        /\ ClosedPcs(pr[1], pr[2]) # {}
        /\ onCloseCalled[pr[2]]
        /\ participants[pr[1]] = <<>>

\* C31: a candidate gathered for an offer of P, which reaches the client after
\* that offer, is handed to a handler; when its addIceCandidate settles, the
\* connection holds that offer as its remote description and the candidate is
\* accepted.
C31_CandidateAfterOffer ==
    [][/\ \A c \in Clients :
            (/\ Handles(c) /\ Head(inbox[c]).type = "ice_candidate"
             /\ Head(inbox[c]).body.type = "offer") => NewTasks # {}
       /\ \A t \in DoneTasks :
            (t.kind = "ice" /\ t.desc.type = "offer") =>
                /\ pcs[t.pc].remote = t.desc
                /\ pcs'[t.pc].added = pcs[t.pc].added + 1
      ]_vars

\* a message of a participant for which the receiver holds no connection
Orphan(c, m) == m.type \in {"answer", "ice_candidate"} /\ ~HasPeer(c, m.from)

\* C32: handling an answer or a candidate of a participant without an entry in
\* the peers map changes nothing: no connection object, no map entry, no
\* handler left suspended, no message sent, participants and remote streams
\* as before.
C32_OrphanIsNoOp ==
    [][\A c \in Clients :
          (Handles(c) /\ Orphan(c, Head(inbox[c]))) =>
              /\ pcs' = pcs /\ peersRef' = peersRef /\ tasks' = tasks
              /\ participants' = participants /\ remoteStreams' = remoteStreams
              /\ offersSent' = offersSent
              /\ \A x \in Clients : SentTo(x) = {}
      ]_vars

\* C32 witness: the connection of a client has failed while an answer and a
\* candidate of the peer were on their way; both are about to be handled and
\* the client has no entry for the peer
C32_Witness ==
    \E pr \in Pairs :
        /\ transportFails > 0 /\ ~HasPeer(pr[1], pr[2])
        /\ ClosedPcs(pr[1], pr[2]) # {}
        /\ Len(inbox[pr[1]]) = 2
        /\ inbox[pr[1]][1].type = "answer" /\ inbox[pr[1]][1].from = pr[2]
        /\ inbox[pr[1]][2].type = "ice_candidate" /\ inbox[pr[1]][2].from = pr[2]

\* C33: an answer whose `to` is not the receiver is dropped at the dispatch: no
\* handler is started, so no remote description is applied for it; an offer or
\* a candidate with such a `to` starts its handler like any other.
C33_AnswerCheckedByTo ==
    [][\A c \in Clients :
          (Handles(c) /\ Head(inbox[c]).to # c) =>
              LET m == Head(inbox[c]) IN
              /\ m.type = "answer" =>
                    tasks' = tasks /\ pcs' = pcs /\ peersRef' = peersRef
              /\ m.type = "offer" =>
                    /\ peersRef'[c][m.from] # NoPc
                    /\ \E t \in NewTasks :
                          /\ t.owner = c /\ t.kind = "offer" /\ t.desc = m.body
                          /\ t.pc = peersRef'[c][m.from]
              /\ (m.type = "ice_candidate" /\ HasPeer(c, m.from)) =>
                    \E t \in NewTasks :
                        /\ t.owner = c /\ t.kind = "ice" /\ t.desc = m.body
                        /\ t.pc = peersRef[c][m.from]
      ]_vars

\* C33 witness: an answer addressed to another participant is about to be
\* handled by a client whose connection for the sender waits for an answer
C33_Witness ==
    \E pr \in Pairs :
        /\ inbox[pr[1]] # <<>>
        /\ Head(inbox[pr[1]]).type = "answer"
        /\ Head(inbox[pr[1]]).from = pr[2] /\ Head(inbox[pr[1]]).to = pr[2]
        /\ HasPeer(pr[1], pr[2])
        /\ pcs[peersRef[pr[1]][pr[2]]].sig = "have-local-offer"

\* C34: room_info and user_joined never give a client a connection toward
\* itself: no entry under its own id in the peers map, no connection object
\* and no suspended createPeerConnection for itself, no offer sent to itself.
C34_NoLinkToSelf ==
    \A c \in Clients :
        /\ peersRef[c][c] = NoPc
        /\ \A i \in PcIds : pcs[i].owner # pcs[i].peer
        /\ \A t \in Pending : t.owner # t.peer
        /\ \A cause \in OfferCauses : offersSent[<<cause, c, c>>] = 0

\* C34 witness: a client has handled a room_info or a user_joined that names
\* it, as its participants list shows, and has a connection for the other
\* participant only
C34_Witness ==
    \E pr \in Pairs :
        /\ inbox[pr[1]] = <<>> /\ Pending = {}
        /\ Occurrences(participants[pr[1]], pr[1]) >= 1
        /\ HasPeer(pr[1], pr[2]) /\ ~HasPeer(pr[1], pr[1])

\* a step of toggleAudio / toggleVideo of client c
ToggleStep(c, k) ==
    IF k = "audio" THEN \E r \in MicResults : ToggleAudio(c, r)
    ELSE \E ok \in BOOLEAN : ToggleVideo(c, ok)

Enabled(c, k) == IF k = "audio" THEN audioEnabled[c] ELSE videoEnabled[c]

\* C35: toggleAudio / toggleVideo with a track of the kind in the stream flips
\* the enabled flag of the track and announces the new value once to the other
\* members; it sends no offer, requests no device and leaves stream, peers map
\* and connections as they are.  Without such a track it is enableMicrophone /
\* enableCamera.
C35_ToggleOnlyFlips ==
    [][\A c \in Clients : \A k \in Kinds :
          ToggleStep(c, k) =>
              IF OfKind(LocalTracks(c), k) # {}
              THEN /\ \A t \in OfKind(LocalTracks(c), k) :
                         (t \in trackOff') = (t \notin trackOff)
                   /\ \A x \in Clients :
                         SentTo(x) = IF x # c /\ x \in Range(members)
                                     THEN {Msg(IF k = "audio" THEN "user_audio_toggled"
                                               ELSE "user_video_toggled",
                                               c, x, Enabled(c, k)')}
                                     ELSE {}
                   /\ \A t \in OfKind(LocalTracks(c), k) :
                         (t \notin trackOff') = Enabled(c, k)'
                   /\ offersSent' = offersSent /\ tasks' = tasks
                   /\ trackCount' = trackCount /\ localStreamRef' = localStreamRef
                   /\ stopped' = stopped /\ peersRef' = peersRef /\ pcs' = pcs
              ELSE mediaOps' = mediaOps + 1
      ]_vars

\* C36: while a live local track of a kind exists, the audioEnabled /
\* videoEnabled state equals the enabled flag of that track.
C36_FlagMatchesTrack ==
    \A c \in Clients : \A t \in LiveLocalTracks(c) :
        Enabled(c, t.kind) = (t \notin trackOff)

\* C37: outbound signaling is never queued. A candidate handed out, or a
\* renegotiation offer finished, while the owner's channel is not open puts no
\* message anywhere, and the renegotiation offer is nevertheless set as the
\* local description; every offer, answer and candidate that reaches a
\* participant is sent by the step that produced it, over a channel that was
\* open at that step, so nothing produced earlier goes out after a reconnect.
C37_OutboundNeverQueued ==
    [][/\ \A i \in PcIds :
            (pcs'[i].ice = pcs[i].ice + 1 /\ wsRef[pcs[i].owner] # "open") =>
                \A x \in Clients : SentTo(x) = {}
       /\ \A t \in DoneTasks :
            (/\ t.kind = "reneg" /\ t.step = "setLocal"
             /\ wsRef[t.owner] # "open"
             /\ pcs[t.pc].sig \in {"stable", "have-local-offer"}) =>
                /\ pcs'[t.pc].local = t.desc
                /\ pcs'[t.pc].sig = "have-local-offer"
                /\ \A x \in Clients : SentTo(x) = {}
                /\ t \notin BagToSet(tasks') /\ NewTasks = {}
       /\ \A x \in Clients : \A m \in SentTo(x) :
            m.type \in {"offer", "answer", "ice_candidate"} =>
                /\ wsRef[m.from] = "open"
                /\ m.type = "ice_candidate" =>
                      \E i \in PcIds : /\ pcs[i].owner = m.from
                                       /\ pcs'[i].ice = pcs[i].ice + 1
                                       /\ m.body = Candidate(i)
                /\ m.type \in {"offer", "answer"} =>
                      \E t \in DoneTasks : /\ t.step = "setLocal"
                                           /\ t.owner = m.from
                                           /\ t.desc = m.body
      ]_vars

\* C37 witness: a client is on its second channel, open again, and one of its
\* connections holds a renegotiation offer as local description, made on the
\* first channel while that was lost, that was never sent
C37_Witness ==
    \E i \in PcIds :
        /\ IsOpen(i) /\ pcs[i].sig = "have-local-offer"
        /\ pcs[i].remote # NoDesc
        /\ pcs[i].local.chan = 1
        /\ RenegOffers(pcs[i].owner, pcs[i].peer) = 0
        /\ wsRef[pcs[i].owner] = "open" /\ wsSock[pcs[i].owner] = 2
        /\ tasks = EmptyBag
        /\ \A x \in Clients : inbox[x] = <<>>

\* C38: when the room lookup fails with an error other than 404 / 403, the call
\* is not closed (onClose is not called), the warning is shown, and, the room id
\* read by the catch being still null, no signaling channel is created and no
\* timer is set; no media is requested either.
C38_OtherLookupErrorKeepsCall ==
    \A c \in Clients :
        lookupResult[c] = "error" =>
            /\ initPc[c] = "failed"
            /\ ~onCloseCalled[c]
            /\ toasts[c] = {"Some features may not be available"}
            /\ sockets[c] = <<>> /\ wsSock[c] = 0 /\ timers[c] = <<>>
            /\ wsRef[c] # "open" /\ ~isConnected[c]
            /\ trackCount[c] = 0 /\ ~localStreamRef[c].present

\* C38 witness: the lookup failed with a server error, the warning is shown and
\* the component is still mounted
C38_Witness ==
    \E c \in Clients :
        /\ lookupResult[c] = "error" /\ initPc[c] = "failed"
        /\ phase[c] = "idle"
        /\ "Some features may not be available" \in toasts[c]

Reconnects(ts) == Cardinality({k \in 1..Len(ts) : ts[k] = "reconnect"})

\* the socket reaches CLOSED in this step and its events are fired
Closes(c, i) == sockets[c][i].state # "closed" /\ sockets'[c][i].state = "closed"

\* the close of the socket comes with an error event: the connection failed or
\* was closed before it was established
WithError(c, i) ==
    sockets'[c][i].why \in FailureKinds \cup {"abort"}

\* one reconnect timer is pending, set after every timer that was pending before
OneFreshReconnect(c) ==
    /\ Reconnects(timers'[c]) = 1
    /\ \E k \in 1..Len(timers'[c]) :
          /\ timers'[c][k] = "reconnect"
          /\ k > Len(ClearReconnect(timers[c]))
          /\ SubSeq(timers'[c], 1, Len(ClearReconnect(timers[c]))) = ClearReconnect(timers[c])

\* C39: a close with code 1000, or a close without error seen while the channel
\* reference is null, leaves the timers as they are; any other close, and every
\* close that comes with an error event, leaves exactly one reconnect timer
\* pending, newer than every timer pending before; and a reconnect timer that
\* fires creates a socket only if the current channel is CLOSED at that moment.
C39_ReconnectScheduling ==
    [][\A c \in Clients :
          /\ \A i \in SocketIds(c) :
                Closes(c, i) =>
                    IF WithError(c, i)
                    THEN OneFreshReconnect(c)
                    ELSE IF sockets'[c][i].why = "normal" \/ wsSock[c] = 0
                    THEN timers'[c] = timers[c]
                    ELSE OneFreshReconnect(c)
          /\ (TimerFire(c) /\ Head(timers[c]) = "reconnect") =>
                /\ Reconnects(timers'[c]) = 0
                /\ sockets'[c] # sockets[c] =>
                      /\ wsRef[c] = "closed"
                      /\ sockets[c][wsSock[c]].state = "closed"
      ]_vars

\* C39 witness: the server closed the channel normally while a reconnect timer
\* of an earlier failure was pending; the timer has found the channel CLOSED
\* and opened the next one, and no timer is pending
C39_Witness ==
    \E c \in Clients : \E i \in SocketIds(c) :
        /\ sockets[c][i].why = "normal"
        /\ i < Len(sockets[c])
        /\ sockets[c][Len(sockets[c])].awaited = "none"
        /\ wsSock[c] = Len(sockets[c])
        /\ timers[c] = <<>>
====
